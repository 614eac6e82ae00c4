----------------------------- MODULE GuestProofs -----------------------------
(***************************************************************************)
(* Proofs about what the guest does for its calls, for every value of the  *)
(* constants of Instance: any number of calls and promises, and scripts    *)
(* that may share promises.                                                *)
(*                                                                         *)
(* None of the properties is inductive.  GuestInv says of each part of the *)
(* guest at which point of the host it can be as it is:                    *)
(*   PlaceInv   the running export is the one the host called;             *)
(*   Delivered  an answer that was fed back has left the map;              *)
(*   AgeInv     what JS left behind is of a unit that has begun, so that   *)
(*              a new call finds nothing that seems to be its own;         *)
(*   AwaitInv   a thread awaits a promise of its own which is not settled, *)
(*              and a promise of this call which is not settled is in the  *)
(*              map;                                                       *)
(*   LoopInv    between two exports of a call without error, no job is     *)
(*              left.                                                      *)
(* OwnInv is the part that needs scripts which share no promise: until the *)
(* gate is open, the queue holds main threads and reports of the current   *)
(* call only.  The one exception to Delivered and AwaitInv is the last     *)
(* settlement of a call whose script has reported an error (GivingUp): the *)
(* loop returns without asking whether the entry was deleted.              *)
(***************************************************************************)
EXTENDS InstanceProofs

-----------------------------------------------------------------------------
(* The queue. *)

\* The sequence of a finite set exists: it has its elements.
LEMMA SetToSeqType ==
  ASSUME NEW S, IsFiniteSet(S)
  PROVE  G!SetToSeq(S) \in Seq(S)
<1> DEFINE n == Cardinality(S)
<1>1. n \in Nat /\ ExistsBijection(1..n, S)
  BY FS_CardinalityType
<1>2. PICK f \in [1..n -> S] : IsInjective(f)
  BY <1>1 DEF ExistsBijection, Bijection, Injection
<1>3. G!Cardinality(S) = n
  BY DEF G!Cardinality, Cardinality, G!IsFiniteSet, IsFiniteSet
<1>4. G!SetToSeq(S) \in [1..n -> S]
  BY <1>2, <1>3 DEF G!SetToSeq, G!IsInjective, IsInjective
<1> QED
  BY <1>1, <1>4

\* A queue of jobs of one sort is a queue of jobs of a wider one.
LEMMA SeqOfLarger ==
  ASSUME NEW S, NEW T, S \subseteq T
  PROVE  Seq(S) \subseteq Seq(T)
OBVIOUS

\* The threads that a settled promise makes ready are those that await it.
LEMMA WakeType ==
  ASSUME NEW id
  PROVE  G!wake(id) \in Seq({j \in G!Jobs : j.kind = "main" /\ await[j.unit] = id})
<1> DEFINE W == {w \in G!Units : await[w] = id}
           T == {G!Job("main", u) : u \in W}
           f == [u \in W |-> G!Job("main", u)]
<1>1. IsFiniteSet(W)
  <2>1. IsFiniteSet(0..MaxCalls)
    BY FS_Interval, HostAssumption
  <2> QED
    BY <2>1, FS_Subset DEF G!Units
<1>2. ExistsBijection(W, T)
  <2>1. f \in [W -> T]
    OBVIOUS
  <2>2. \A a, b \in W : f[a] = f[b] => a = b
    BY DEF G!Job
  <2>3. \A t \in T : \E u \in W : f[u] = t
    OBVIOUS
  <2> QED
    BY <2>1, <2>2, <2>3 DEF ExistsBijection, Bijection, Injection, Surjection, IsInjective
<1>3. G!SetToSeq(T) \in Seq(T)
  BY <1>1, <1>2, FS_Bijection, SetToSeqType
<1>4. T \subseteq {j \in G!Jobs : j.kind = "main" /\ await[j.unit] = id}
  BY DEF G!Job, G!Jobs
<1>5. G!wake(id) = G!SetToSeq(T)
  BY DEF G!wake
<1> QED
  BY <1>3, <1>4, <1>5, SeqOfLarger

-----------------------------------------------------------------------------
(* Types. *)

LEMMA GuestTypeInit == InstanceInit => G!GuestTypeOK
<1> SUFFICES ASSUME InstanceInit PROVE G!GuestTypeOK
  OBVIOUS
<1>1. G!GuestInit(pc = "wasm")
  BY DEF InstanceInit
<1>2. /\ gpc \in G!Places /\ arg \in PromiseIds \cup {G!Nothing}
      /\ running = G!Nobody /\ jobs \in Seq(G!Jobs)
      /\ await \in [G!Units -> PromiseIds \cup {G!Gate, G!Nothing}]
      /\ pendingRpcs \subseteq PromiseIds /\ settled \subseteq PromiseIds
      /\ issuer \in [PromiseIds -> G!Units \cup {G!NoUnit}] /\ spawned \subseteq G!Units
  BY <1>1 DEF G!GuestInit, G!Places
<1>3. /\ gateOpen \in BOOLEAN /\ usedRpcCalls \in BOOLEAN
      /\ resetCut \in BOOLEAN /\ dead \in BOOLEAN
  BY <1>1, Zenon DEF G!GuestInit
<1> QED
  BY <1>2, <1>3 DEF G!GuestTypeOK

\* The calls into the guest and the returns from it.
LEMMA GuestTypeBoundary ==
  ASSUME TypeOK, G!GuestTypeOK,
         \/ \E async \in BOOLEAN : StartCall(async)
         \/ \E id \in PromiseIds : StartSettlement(id)
         \/ ExportReturns \/ LoopEnds \/ GuestFails
  PROVE  G!GuestTypeOK'
<1>1. CASE \E async \in BOOLEAN : StartCall(async)
  BY <1>1 DEF StartCall, G!Enter, G!GuestTypeOK, G!Places
<1>2. CASE \E id \in PromiseIds : StartSettlement(id)
  BY <1>2 DEF StartSettlement, G!EnterSettle, G!GuestTypeOK, G!Places
<1>3. CASE ExportReturns
  BY <1>3 DEF ExportReturns, G!Leave, G!GuestTypeOK, G!Places
<1>4. CASE LoopEnds
  BY <1>4 DEF LoopEnds, guestVars, G!GuestTypeOK, G!Places
<1>5. CASE GuestFails
  BY <1>5 DEF GuestFails, G!Fail, G!GuestTypeOK, G!Places
<1> QED
  BY <1>1, <1>2, <1>3, <1>4, <1>5

\* The Rust code and the job queue.
LEMMA GuestTypeRuntime ==
  ASSUME TypeOK, G!GuestTypeOK, Runtime
  PROVE  G!GuestTypeOK'
<1>1. call \in G!Units
  BY DEF TypeOK, Calls, G!Units
<1>2. CASE G!DiscardStale(call)
  <2>1. usedRpcCalls' \in BOOLEAN
    BY <1>2, Zenon DEF G!DiscardStale
  <2> QED
    BY <1>1, <1>2, <2>1 DEF G!DiscardStale, G!GuestTypeOK, G!Places, G!Thread
<1>3. CASE G!DrainDone(call)
  BY <1>1, <1>3 DEF G!DrainDone, G!GuestTypeOK, G!Places, G!Thread
<1>4. CASE G!RunJob
  <2>1. Head(jobs) \in G!Jobs /\ Tail(jobs) \in Seq(G!Jobs)
    BY <1>4 DEF G!RunJob, G!GuestTypeOK
  <2>2. running' \in [kind : {"main", "task"}, unit : G!Units]
    BY <1>4, <2>1 DEF G!RunJob, G!Jobs, G!Thread
  <2> QED
    BY <1>4, <2>1, <2>2 DEF G!RunJob, G!GuestTypeOK
<1>5. CASE G!JobsDone
  BY <1>5 DEF G!JobsDone, G!GuestTypeOK, G!Places
<1>6. CASE G!SettleRPC
  <2>1. jobs' \in Seq(G!Jobs)
    <3>1. G!wake(arg) \in Seq(G!Jobs)
      BY WakeType, SeqOfLarger
    <3> QED
      BY <1>6, <3>1 DEF G!SettleRPC, G!GuestTypeOK
  <2> QED
    BY <1>6, <2>1 DEF G!SettleRPC, G!GuestTypeOK, G!Places
<1> QED
  BY <1>2, <1>3, <1>4, <1>5, <1>6 DEF Runtime

\* The unit of a running thread.
LEMMA RunningUnit ==
  ASSUME G!GuestTypeOK, running # G!Nobody
  PROVE  /\ running \in [kind : {"main", "task"}, unit : G!Units]
         /\ running.unit \in G!Units /\ running.kind \in {"main", "task"}
BY DEF G!GuestTypeOK

\* An await makes the thread ready at once, or leaves it waiting for a promise that is
\* not settled.
LEMMA AwaitEffect ==
  ASSUME NEW p, G!JsAwait(p)
  PROVE  \/ /\ jobs' = Append(jobs, G!Job("main", G!Me))
            /\ await' = [await EXCEPT ![G!Me] = G!Nothing]
         \/ /\ jobs' = jobs
            /\ await' = [await EXCEPT ![G!Me] = p]
            /\ p = G!Gate \/ (p \in PromiseIds /\ issuer[p] = G!Me /\ p \notin settled)
BY DEF G!JsAwait

\* The JS, where it calls no import.
LEMMA GuestTypeScript ==
  ASSUME TypeOK, G!GuestTypeOK, Script
  PROVE  G!GuestTypeOK'
<1>1. running # G!Nobody /\ running.unit \in G!Units
  BY RunningUnit DEF Script
<1>2. CASE G!JsSpawn
  BY <1>1, <1>2 DEF G!JsSpawn, G!Me, G!GuestTypeOK, G!Jobs, G!Job
<1>3. CASE G!JsOpenGate
  <2>1. G!wake(G!Gate) \in Seq(G!Jobs)
    BY WakeType, SeqOfLarger
  <2>2. gateOpen' \in BOOLEAN
    BY <1>3, Zenon DEF G!JsOpenGate
  <2> QED
    BY <1>3, <2>1, <2>2 DEF G!JsOpenGate, G!GuestTypeOK
<1>4. CASE G!JsTaskEnd
  BY <1>4 DEF G!JsTaskEnd, G!GuestTypeOK
<1>5. CASE \E id \in PromiseIds : G!JsRPCThrows(id)
  BY <1>1, <1>5 DEF G!JsRPCThrows, G!Me, G!GuestTypeOK
<1>6. CASE \E p \in PromiseIds \cup {G!Gate} : G!JsAwait(p)
  <2>1. PICK p \in PromiseIds \cup {G!Gate} : G!JsAwait(p)
    BY <1>6
  <2>2. jobs' \in Seq(G!Jobs)
    <3>1. G!Job("main", G!Me) \in G!Jobs
      BY <1>1 DEF G!Me, G!Jobs, G!Job
    <3>2. jobs' \in {jobs, Append(jobs, G!Job("main", G!Me))}
      BY <2>1, AwaitEffect, Zenon
    <3>3. jobs \in Seq(G!Jobs)
      BY DEF G!GuestTypeOK
    <3> HIDE DEF G!Jobs
    <3> QED
      BY <3>1, <3>2, <3>3
  <2>3. await' \in [G!Units -> PromiseIds \cup {G!Gate, G!Nothing}]
    BY <1>1, <2>1 DEF G!JsAwait, G!Me, G!GuestTypeOK
  <2> QED
    BY <2>1, <2>2, <2>3 DEF G!JsAwait, G!Suspends, G!GuestTypeOK, G!Places
<1>7. CASE \E isError \in BOOLEAN : G!JsEnd(isError)
  <2>1. jobs' \in Seq(G!Jobs)
    BY <1>1, <1>7 DEF G!JsEnd, G!Me, G!GuestTypeOK, G!Jobs, G!Job
  <2> QED
    BY <1>7, <2>1 DEF G!JsEnd, G!Suspends, G!GuestTypeOK, G!Places
<1> QED
  BY <1>2, <1>3, <1>4, <1>5, <1>6, <1>7 DEF Script

\* The JS, where it calls the host, and what happens outside.
LEMMA GuestTypeImports ==
  ASSUME TypeOK, G!GuestTypeOK,
         \/ \E id \in PromiseIds : CallRPC(id)
         \/ \E isError \in BOOLEAN : CallSetResult(isError)
         \/ Polls \/ Outside \/ UNCHANGED ivars
  PROVE  G!GuestTypeOK'
<1>1. CASE \E id \in PromiseIds : CallRPC(id)
  <2>1. PICK id \in PromiseIds : CallRPC(id)
    BY <1>1
  <2>2. running.unit \in G!Units
    BY <2>1, RunningUnit DEF CallRPC, G!JsRPC
  <2>3. usedRpcCalls' \in BOOLEAN
    BY <2>1, Zenon DEF CallRPC, G!JsRPC
  <2> QED
    BY <2>1, <2>2, <2>3 DEF CallRPC, G!JsRPC, G!Me, G!GuestTypeOK
<1>2. CASE \E isError \in BOOLEAN : CallSetResult(isError)
  <2>1. PICK isError \in BOOLEAN : CallSetResult(isError)
    BY <1>2
  <2>2. CASE G!JsEndDirect(isError, isAsync[call])
    BY <2>2 DEF G!JsEndDirect, G!GuestTypeOK, G!Places
  <2>3. CASE jobs # << >> /\ G!ReportJob(isError)
    BY <2>3 DEF G!ReportJob, G!GuestTypeOK
  <2>4. CASE G!SettleThrows
    BY <2>4 DEF G!SettleThrows, G!GuestTypeOK, G!Places
  <2> QED
    BY <2>1, <2>2, <2>3, <2>4 DEF CallSetResult
<1>3. CASE Polls \/ Outside \/ UNCHANGED ivars
  <2>1. UNCHANGED guestVars
    BY <1>3 DEF Polls, Outside, ivars
  <2> QED
    BY <2>1 DEF guestVars, G!GuestTypeOK
<1> QED
  BY <1>1, <1>2, <1>3

LEMMA GuestTypeStep == TypeOK /\ G!GuestTypeOK /\ [InstanceNext]_ivars => G!GuestTypeOK'
  BY GuestTypeBoundary, GuestTypeRuntime, GuestTypeScript, GuestTypeImports DEF InstanceNext

\* The history of who reported what.
ReportsTypeOK ==
  /\ errorBy \in Calls \cup {NoCall} /\ valueBy \in Calls \cup {NoCall}
  /\ answerBy \in [Calls -> Calls \cup {NoCall}]

LEMMA ReportsTypeStep ==
  ASSUME TypeOK, G!GuestTypeOK, ReportsTypeOK, [InstanceNext]_ivars
  PROVE  ReportsTypeOK'
<1>1. CASE Answers
  BY <1>1 DEF Answers, TypeOK, ReportsTypeOK
<1>2. CASE UNCHANGED reports
  BY <1>2 DEF reports, ReportsTypeOK
<1>3. CASE \E async \in BOOLEAN : StartCall(async)
  BY <1>3 DEF StartCall, ReportsTypeOK
<1>4. CASE \E u \in Calls, isError \in BOOLEAN : ReportsFor(u, isError)
  BY <1>4 DEF ReportsFor, ReportsTypeOK
<1>5. CASE \E isError \in BOOLEAN : CallSetResult(isError)
  <2>1. PICK isError \in BOOLEAN : CallSetResult(isError)
    BY <1>5
  <2>2. running # G!Nobody => running.unit \in Calls
    BY RunningUnit DEF Calls, G!Units
  <2>3. jobs # << >> => Head(jobs).unit \in Calls
    <3>1. jobs # << >> => Head(jobs) \in G!Jobs
      BY DEF G!GuestTypeOK
    <3> QED
      BY <3>1 DEF G!Jobs, Calls, G!Units
  <2> QED
    BY <1>4, <2>1, <2>2, <2>3 DEF CallSetResult, TypeOK
<1> QED
  BY <1>1, <1>2, <1>3, <1>5 DEF InstanceNext, StartSettlement, CallRPC, ExportReturns,
     LoopEnds, GuestFails, Runtime, Script, GuestRuns, Polls, Outside, ivars

\* What the guest and its records of the reports hold is of the types Instance names.
THEOREM InstanceTypeCorrect == InstanceSpec => []InstanceTypeOK
<1>1. InstanceInit => ReportsTypeOK
  BY DEF InstanceInit, ReportsTypeOK, Calls, NoCall
<1>2. TypeOK /\ G!GuestTypeOK /\ ReportsTypeOK => InstanceTypeOK
  BY DEF InstanceTypeOK, ReportsTypeOK
<1> QED
  BY <1>1, <1>2, InstanceIsHost, TypeCorrect, GuestTypeInit, GuestTypeStep, ReportsTypeStep,
     PTL DEF InstanceSpec

-----------------------------------------------------------------------------
(* The inductive invariant. *)

\* Where the export is, seen from both sides: what resolve_rpc or reject_rpc was given
\* is an answer of this call, and a dead guest gets no further than an entry.
PlaceInv ==
  /\ gpc \in {"enter", "drain", "script"} => pc = "wasm"
  /\ gpc = "settle" => /\ pc = "settle" /\ arg \in PromiseIds
                       /\ st[arg] = "delivered" /\ during[arg] = call
  /\ running # G!Nobody => gpc \in {"drain", "script", "jobs"}
  /\ gpc = "script" => running = G!Thread("main", call)
  /\ dead => gpc \in {"out", "enter", "settle"}

\* The settlement in progress ends the loop: the script error that was reported makes
\* serviceRPCLoop return.
GivingUp == pc = "settle" /\ gpc = "ret" /\ scriptError # NoCall

\* An answer of this call that was delivered has left the map of the guest.
Delivered ==
  pc # "idle" =>
    \A id \in pendingRpcs :
      st[id] = "delivered" /\ during[id] = call => (gpc = "settle" /\ arg = id) \/ GivingUp

\* The units that may have run: none that is to come, and not the unit of this call
\* before its script starts.
Begun == {u \in G!Units : u < call \/ (u = call /\ gpc \notin {"enter", "drain"})}

\* All that the JS has left behind was left by units that have begun.
AgeInv ==
  /\ running # G!Nobody => running.unit \in Begun
  /\ jobs \in Seq({j \in G!Jobs : j.unit \in Begun})
  /\ spawned \subseteq Begun
  /\ \A id \in PromiseIds : issuer[id] # G!NoUnit => issuer[id] \in Begun
  /\ \A u \in G!Units : await[u] # G!Nothing => u \in Begun

\* A unit waits for promises of its own that are not settled; one made by the unit of
\* this call is in the map.
AwaitInv ==
  /\ \A u \in G!Units : await[u] \in PromiseIds
                          => issuer[await[u]] = u /\ await[u] \notin settled
  /\ pc # "idle" => \A id \in PromiseIds :
                      issuer[id] = call /\ id \notin settled
                        => (id \in pendingRpcs /\ during[id] = call) \/ GivingUp

\* Between two exports of an async call without error, no job is left.
LoopInv ==
  (pc = "loop" \/ gpc = "ret") /\ isAsync[call] /\ scriptError = NoCall => jobs = << >>

\* The jobs that may be in the queue while the gate is shut: tasks, and in the job loop
\* the threads and reports of this call.
Mine == {j \in G!Jobs : j.kind = "task" \/ (gpc = "jobs" /\ j.unit = call)}

\* As long as the scripts share no promise, the job loop of a call is the only place
\* where a main thread, or the report of one, is in the queue, and it is that call's.
OwnInv ==
  ~gateOpen =>
    /\ errorBy \in {NoCall, call} /\ valueBy \in {NoCall, call}
    /\ OwnReport
    /\ ~dead => jobs \in Seq(Mine)
    /\ running.kind = "main" => running.unit = call /\ gpc \in {"script", "jobs"}
    /\ \A u \in G!Units : await[u] \in PromiseIds => during[await[u]] = u

-----------------------------------------------------------------------------
(* What the steps leave alone. *)

\* The Rust code and the JS that calls no import leave the host as it is.
LEMMA HostStill ==
  ASSUME Runtime \/ Script
  PROVE  /\ UNCHANGED <<pc, call, isAsync, st, during, owner, ctxDone, rpcDone>>
         /\ UNCHANGED <<scriptError, resultValue, returned>>
         /\ UNCHANGED <<errorBy, valueBy, answerBy>>
         /\ pc \in {"wasm", "settle"}
BY DEF Runtime, Script, GuestRuns, InWasm, vars, rpcVars, ctxVars, registers, reports

\* The handlers and the other goroutines do not reach the guest, and hand over nothing.
LEMMA OutsideKeeps ==
  ASSUME TypeOK, Polls \/ Outside \/ UNCHANGED ivars
  PROVE  /\ UNCHANGED <<pc, call, isAsync, during, owner, scriptError, resultValue, returned>>
         /\ UNCHANGED <<gpc, arg, running, jobs, await, pendingRpcs, settled, issuer>>
         /\ UNCHANGED <<spawned, gateOpen, usedRpcCalls, resetCut, dead>>
         /\ UNCHANGED <<errorBy, valueBy, answerBy>>
         /\ \A id \in PromiseIds : st'[id] = "delivered" <=> st[id] = "delivered"
<1>1. UNCHANGED <<guestVars, reports>>
  BY DEF Polls, Outside, ivars
<1>2. UNCHANGED <<pc, call, isAsync, during, owner, scriptError, resultValue, returned>>
  BY DEF Polls, hostShouldInterrupt, Outside, HandlerStep, HandlerReturns, Send, Abort,
     CancelCtx, Interrupt, Close, Terminated, ivars, vars, rpcVars, registers
<1>3. CASE \E id \in PromiseIds : HandlerStep(id)
  BY <1>1, <1>2, <1>3 DEF HandlerStep, HandlerReturns, Send, Abort, TypeOK, guestVars, reports
<1>4. CASE ~ \E id \in PromiseIds : HandlerStep(id)
  <2>1. UNCHANGED st
    BY <1>4 DEF Polls, hostShouldInterrupt, Outside, CancelCtx, Interrupt, Close,
       Terminated, ivars, vars, rpcVars
  <2> QED
    BY <1>1, <1>2, <2>1 DEF guestVars, reports
<1> QED
  BY <1>3, <1>4

\* A call of a handler of the host: the RPC is new on both sides.
LEMMA CallRPCEffect ==
  ASSUME TypeOK, G!GuestTypeOK, RPCPlaces, NEW id \in PromiseIds, CallRPC(id)
  PROVE  /\ UNCHANGED <<pc, call, isAsync, owner, scriptError, resultValue, returned>>
         /\ UNCHANGED <<gpc, arg, running, jobs, await, settled, spawned, gateOpen, dead>>
         /\ UNCHANGED <<errorBy, valueBy, answerBy>>
         /\ pc \in {"wasm", "settle"} /\ running # G!Nobody
         /\ st[id] = "fresh" /\ during[id] = NoCall /\ issuer[id] = G!NoUnit
         /\ pendingRpcs' = pendingRpcs \cup {id}
         /\ st'[id] = "queued" /\ during'[id] = call /\ issuer'[id] = running.unit
         /\ \A x \in PromiseIds \ {id} :
               st'[x] = st[x] /\ during'[x] = during[x] /\ issuer'[x] = issuer[x]
<1>1. st[id] = "fresh" /\ during[id] = NoCall
  BY DEF CallRPC, hostRPC, RPCPlaces
<1>2. /\ st' = [st EXCEPT ![id] = "queued"] /\ during' = [during EXCEPT ![id] = call]
      /\ UNCHANGED <<pc, call, isAsync, owner, scriptError, resultValue, returned>>
      /\ pc \in {"wasm", "settle"}
  BY DEF CallRPC, hostRPC, InWasm, ctxVars, registers
<1>3. /\ issuer' = [issuer EXCEPT ![id] = running.unit] /\ issuer[id] = G!NoUnit
      /\ pendingRpcs' = pendingRpcs \cup {id} /\ running # G!Nobody
      /\ UNCHANGED <<gpc, arg, running, jobs, await, settled, spawned, gateOpen, dead>>
  BY DEF CallRPC, G!JsRPC, G!Me
<1>4. UNCHANGED <<errorBy, valueBy, answerBy>>
  BY DEF CallRPC, reports
<1> QED
  BY <1>1, <1>2, <1>3, <1>4 DEF TypeOK, G!GuestTypeOK

\* The report of a result leaves all but the registers of the host alone.
LEMMA SetResultEffect ==
  ASSUME NEW isError \in BOOLEAN, CallSetResult(isError)
  PROVE  /\ UNCHANGED <<pc, call, isAsync, st, during, owner, returned>>
         /\ UNCHANGED <<settled, issuer, await, spawned, gateOpen, dead>>
         /\ pc \in {"wasm", "settle"}
         /\ isError => scriptError' = call
         /\ scriptError' \in {scriptError, call}
         /\ answerBy' = answerBy
<1>1. hostSetResult(isError) /\ answerBy' = answerBy
  BY DEF CallSetResult, ReportsFor
<1>2. UNCHANGED <<settled, issuer, await, spawned, gateOpen, dead>>
  BY DEF CallSetResult, G!JsEndDirect, G!ReportJob, G!SettleThrows
<1> QED
  BY <1>1, <1>2 DEF hostSetResult, InWasm, rpcVars

\* A call begins on a guest that is out: the registers are clear, what was delivered
\* stays so.
LEMMA StartCallEffect ==
  ASSUME TypeOK, NEW async \in BOOLEAN, StartCall(async)
  PROVE  /\ pc = "idle" /\ pc' = "wasm" /\ gpc = "out" /\ gpc' = "enter"
         /\ call' = call + 1 /\ scriptError' = NoCall
         /\ UNCHANGED <<during, owner, returned, answerBy>>
         /\ \A c \in Calls : c # call' => isAsync'[c] = isAsync[c]
         /\ UNCHANGED <<arg, running, jobs, await, pendingRpcs, settled, issuer>>
         /\ UNCHANGED <<spawned, gateOpen, usedRpcCalls, resetCut, dead>>
         /\ \A id \in PromiseIds : st'[id] = "delivered" <=> st[id] = "delivered"
         /\ errorBy' = NoCall /\ valueBy' = NoCall
BY DEF StartCall, BeginCall, resetState, G!Enter, TypeOK

\* The loop hands an answer of this call to the guest.
LEMMA StartSettlementEffect ==
  ASSUME TypeOK, RPCPlaces, NEW id \in PromiseIds, StartSettlement(id)
  PROVE  /\ pc = "loop" /\ pc' = "settle" /\ gpc = "out" /\ gpc' = "settle"
         /\ arg' = id /\ st'[id] = "delivered" /\ during[id] = call
         /\ \A x \in PromiseIds \ {id} : st'[x] = st[x]
         /\ UNCHANGED <<call, isAsync, during, owner, scriptError, resultValue, returned>>
         /\ UNCHANGED <<running, jobs, await, pendingRpcs, settled, issuer>>
         /\ UNCHANGED <<spawned, gateOpen, usedRpcCalls, resetCut, dead>>
         /\ UNCHANGED <<errorBy, valueBy, answerBy>>
<1>1. Receive(id) /\ G!EnterSettle(id) /\ UNCHANGED reports
  BY DEF StartSettlement
<1>2. owner[id] = call
  BY <1>1 DEF Receive, Buffer, Launched
<1>3. during[id] = call
  BY <1>2 DEF RPCPlaces, TypeOK, Calls, NoCall
<1> QED
  BY <1>1, <1>3 DEF Receive, G!EnterSettle, reports, registers, TypeOK

\* The guest's part of a return is nothing but the return.  On the host's side, a call
\* that is over got the outcome of its registers, or is the prelude; the loop that
\* goes on after a settlement saw no error.
LEMMA ExportReturnsEffect ==
  ASSUME TypeOK, ExportReturns
  PROVE  /\ gpc = "ret" /\ gpc' = "out" /\ pc' \in {"idle", "loop"}
         /\ UNCHANGED <<arg, running, jobs, await, pendingRpcs, settled, issuer>>
         /\ UNCHANGED <<spawned, gateOpen, usedRpcCalls, resetCut, dead>>
         /\ UNCHANGED <<call, isAsync, during>>
         /\ pc' = "loop" => UNCHANGED <<scriptError, returned, answerBy>>
         /\ pc' = "loop" /\ pc = "settle" => scriptError = NoCall
         /\ pc' = "idle" /\ call # 0 => returned' = [returned EXCEPT ![call] = RegisterOutcome]
         /\ pc' = "idle" => Answers /\ \A c \in Calls \ {call} : returned'[c] = returned[c]
         /\ pc' = "loop" => UNCHANGED <<errorBy, valueBy, answerBy>>
         /\ \A id \in PromiseIds : st'[id] = "delivered" <=> st[id] = "delivered"
<1>1. /\ gpc = "ret" /\ gpc' = "out"
      /\ UNCHANGED <<arg, running, jobs, await, pendingRpcs, settled, issuer>>
      /\ UNCHANGED <<spawned, gateOpen, usedRpcCalls, resetCut, dead>>
  BY DEF ExportReturns, G!Leave
<1>2. CASE PreludeReturns /\ Answers
  BY <1>1, <1>2 DEF PreludeReturns, Return, resetState, TypeOK
<1>3. CASE (ReturnWithoutLoop \/ ExitOnError) /\ Answers
  BY <1>1, <1>3 DEF ReturnWithoutLoop, ExitOnError, Return, rpcVars, TypeOK
<1>4. CASE (EnterLoop \/ LoopAgain) /\ UNCHANGED reports
  BY <1>1, <1>4 DEF EnterLoop, LoopAgain, launchPendingRPCs, Launch, registers, reports,
     TypeOK
<1> QED
  BY <1>2, <1>3, <1>4 DEF ExportReturns

LEMMA LoopEndsEffect ==
  ASSUME TypeOK, LoopEnds
  PROVE  /\ pc = "loop" /\ pc' = "idle" /\ Answers
         /\ UNCHANGED <<call, isAsync, st, during, scriptError>>
         /\ returned' = [returned EXCEPT ![call] = RegisterOutcome]
         /\ UNCHANGED <<gpc, arg, running, jobs, await, pendingRpcs, settled, issuer>>
         /\ UNCHANGED <<spawned, gateOpen, usedRpcCalls, resetCut, dead>>
BY DEF LoopEnds, LoopDone, Return, rpcVars, registers, guestVars

LEMMA GuestFailsEffect ==
  ASSUME TypeOK, GuestFails
  PROVE  /\ pc \in {"wasm", "settle"} /\ pc' = "idle" /\ Answers
         /\ UNCHANGED <<call, isAsync, st, during, scriptError>>
         /\ returned' = [returned EXCEPT ![call] = Outcome("failed", NoCall)]
         /\ gpc # "out" /\ gpc' = "out" /\ running' = G!Nobody
         /\ UNCHANGED <<jobs, await, pendingRpcs, settled, issuer, spawned>>
         /\ UNCHANGED <<gateOpen, usedRpcCalls, resetCut>>
         /\ ~dead' => gpc \in {"enter", "settle"}
         /\ dead => dead'
BY DEF GuestFails, ExportFails, Return, rpcVars, registers, G!Fail

-----------------------------------------------------------------------------
(* Where the export is. *)

LEMMA PlaceBoundary ==
  ASSUME TypeOK, RPCPlaces, MapInv, PlaceInv,
         \/ \E async \in BOOLEAN : StartCall(async)
         \/ \E id \in PromiseIds : StartSettlement(id)
         \/ ExportReturns \/ LoopEnds \/ GuestFails
  PROVE  PlaceInv'
<1>1. CASE \E async \in BOOLEAN : StartCall(async)
  BY <1>1, StartCallEffect DEF PlaceInv
<1>2. CASE \E id \in PromiseIds : StartSettlement(id)
  BY <1>2, StartSettlementEffect DEF PlaceInv
<1>3. CASE ExportReturns
  BY <1>3, ExportReturnsEffect DEF PlaceInv
<1>4. CASE LoopEnds
  BY <1>4, LoopEndsEffect DEF PlaceInv, MapInv
<1>5. CASE GuestFails
  BY <1>5, GuestFailsEffect DEF PlaceInv
<1> QED
  BY <1>1, <1>2, <1>3, <1>4, <1>5

LEMMA PlaceGuest ==
  ASSUME TypeOK, G!GuestTypeOK, RPCPlaces, MapInv, PlaceInv,
         \/ Runtime \/ Script
         \/ \E id \in PromiseIds : CallRPC(id)
         \/ \E isError \in BOOLEAN : CallSetResult(isError)
         \/ Polls \/ Outside \/ UNCHANGED ivars
  PROVE  PlaceInv'
<1>1. CASE Runtime
  <2>1. UNCHANGED <<pc, call, st, during>> /\ pc \in {"wasm", "settle"}
    BY <1>1, HostStill
  <2>2. CASE G!DiscardStale(call)
    BY <2>1, <2>2 DEF G!DiscardStale, PlaceInv
  <2>3. CASE G!DrainDone(call)
    BY <2>1, <2>3 DEF G!DrainDone, PlaceInv
  <2>4. CASE G!RunJob \/ G!JobsDone
    BY <2>1, <2>4 DEF G!RunJob, G!JobsDone, PlaceInv
  <2>5. CASE G!SettleRPC
    BY <2>1, <2>5 DEF G!SettleRPC, PlaceInv
  <2> QED
    BY <1>1, <2>2, <2>3, <2>4, <2>5 DEF Runtime
<1>2. CASE Script
  <2>1. UNCHANGED <<pc, call, st, during>> /\ running # G!Nobody
    BY <1>2, HostStill DEF Script
  <2>2. UNCHANGED dead
    BY <1>2 DEF Script, G!JsSpawn, G!JsOpenGate, G!JsTaskEnd, G!JsRPCThrows, G!JsAwait,
       G!JsEnd
  <2>3. \/ UNCHANGED <<gpc, running>>
        \/ gpc' = gpc /\ running' = G!Nobody /\ gpc # "script"
        \/ gpc = "script" /\ gpc' = "jobs" /\ running' = G!Nobody
    BY <1>2 DEF Script, G!JsSpawn, G!JsOpenGate, G!JsTaskEnd, G!JsRPCThrows, G!JsAwait,
       G!JsEnd, G!Suspends, G!Thread, PlaceInv
  <2> QED
    BY <2>1, <2>2, <2>3 DEF PlaceInv
<1>3. CASE \E id \in PromiseIds : CallRPC(id)
  BY <1>3, CallRPCEffect DEF PlaceInv
<1>4. CASE \E isError \in BOOLEAN : CallSetResult(isError)
  <2>1. UNCHANGED <<pc, call, st, during, dead>>
    BY <1>4, SetResultEffect
  <2>2. \/ gpc = "script" /\ gpc' \in {"jobs", "ret"} /\ running' = G!Nobody
        \/ UNCHANGED <<gpc, running>> /\ gpc # "settle"
        \/ gpc = "settle" /\ gpc' = "ret" /\ UNCHANGED running /\ ~dead
    BY <1>4 DEF CallSetResult, G!JsEndDirect, G!ReportJob, G!SettleThrows
  <2> QED
    BY <2>1, <2>2 DEF PlaceInv
<1>5. CASE Polls \/ Outside \/ UNCHANGED ivars
  BY <1>5, OutsideKeeps DEF PlaceInv
<1> QED
  BY <1>1, <1>2, <1>3, <1>4, <1>5

-----------------------------------------------------------------------------
(* The answers that were delivered. *)

LEMMA DeliveredBoundary ==
  ASSUME TypeOK, RPCPlaces, MapInv, PlaceInv, Delivered,
         \/ \E async \in BOOLEAN : StartCall(async)
         \/ \E id \in PromiseIds : StartSettlement(id)
         \/ ExportReturns \/ LoopEnds \/ GuestFails
  PROVE  Delivered'
<1>0. call \in Int /\ \A id \in PromiseIds : during[id] \in Int /\ during[id] <= call
  BY DEF TypeOK, Calls, NoCall, RPCPlaces
<1>1. CASE \E async \in BOOLEAN : StartCall(async)
  BY <1>0, <1>1, StartCallEffect DEF Delivered, MapInv
<1>2. CASE \E id \in PromiseIds : StartSettlement(id)
  BY <1>2, StartSettlementEffect DEF Delivered, GivingUp, MapInv
<1>3. CASE ExportReturns
  <2>1. CASE pc' = "idle"
    BY <2>1 DEF Delivered
  <2>2. CASE pc' = "loop"
    BY <1>3, <2>2, ExportReturnsEffect DEF Delivered, GivingUp, MapInv
  <2> QED
    BY <1>3, <2>1, <2>2, ExportReturnsEffect
<1>4. CASE LoopEnds \/ GuestFails
  BY <1>4, LoopEndsEffect, GuestFailsEffect DEF Delivered
<1> QED
  BY <1>1, <1>2, <1>3, <1>4

LEMMA DeliveredGuest ==
  ASSUME TypeOK, G!GuestTypeOK, RPCPlaces, MapInv, PlaceInv, Delivered,
         \/ Runtime \/ Script
         \/ \E id \in PromiseIds : CallRPC(id)
         \/ \E isError \in BOOLEAN : CallSetResult(isError)
         \/ Polls \/ Outside \/ UNCHANGED ivars
  PROVE  Delivered'
<1>1. CASE Runtime
  <2>1. UNCHANGED <<pc, call, st, during, scriptError>>
    BY <1>1, HostStill
  <2>2. CASE G!SettleRPC
    BY <2>1, <2>2 DEF G!SettleRPC, Delivered, GivingUp
  <2>3. CASE ~G!SettleRPC
    <3>1. /\ pendingRpcs' \subseteq pendingRpcs
          /\ gpc # "settle" /\ (gpc = "ret" => gpc' = "ret")
      BY <1>1, <2>3 DEF Runtime, G!DiscardStale, G!DrainDone, G!RunJob, G!JobsDone
    <3> QED
      BY <2>1, <3>1 DEF Delivered, GivingUp
  <2> QED
    BY <2>2, <2>3
<1>2. CASE Script
  <2>1. UNCHANGED <<pc, call, st, during, scriptError>> /\ gpc \in {"drain", "script", "jobs"}
    BY <1>2, HostStill DEF Script, PlaceInv
  <2>2. \/ pendingRpcs' = pendingRpcs
        \/ \E id \in PromiseIds : st[id] = "fresh" /\ pendingRpcs' = pendingRpcs \cup {id}
    BY <1>2 DEF Script, G!JsSpawn, G!JsOpenGate, G!JsTaskEnd, G!JsRPCThrows, G!JsAwait,
       G!JsEnd
  <2> QED
    BY <2>1, <2>2 DEF Delivered, GivingUp
<1>3. CASE \E id \in PromiseIds : CallRPC(id)
  BY <1>3, CallRPCEffect DEF Delivered, GivingUp, MapInv
<1>4. CASE \E isError \in BOOLEAN : CallSetResult(isError)
  <2>1. PICK isError \in BOOLEAN : CallSetResult(isError)
    BY <1>4
  <2>2. UNCHANGED <<pc, call, st, during>> /\ call # NoCall
    BY <2>1, SetResultEffect DEF TypeOK, Calls, NoCall
  <2>3. CASE gpc = "settle"
    <3>1. pendingRpcs' \subseteq pendingRpcs /\ gpc' = "ret" /\ scriptError' = call
      BY <2>1, <2>3, SetResultEffect
         DEF CallSetResult, G!JsEndDirect, G!ReportJob, G!SettleThrows
    <3> QED
      BY <2>2, <2>3, <3>1 DEF Delivered, GivingUp, PlaceInv
  <2>4. CASE gpc # "settle"
    <3>1. pendingRpcs' = pendingRpcs /\ gpc # "ret"
      BY <2>1, <2>4 DEF CallSetResult, G!JsEndDirect, G!ReportJob, G!SettleThrows
    <3> QED
      BY <2>2, <2>4, <3>1 DEF Delivered, GivingUp
  <2> QED
    BY <2>3, <2>4
<1>5. CASE Polls \/ Outside \/ UNCHANGED ivars
  BY <1>5, OutsideKeeps DEF Delivered, GivingUp, MapInv
<1> QED
  BY <1>1, <1>2, <1>3, <1>4, <1>5

-----------------------------------------------------------------------------
(* The age of what is left behind. *)

\* A unit that has begun has begun for good.
LEMMA BegunGrows ==
  ASSUME TypeOK,
         \/ call' = call /\ (gpc' \in {"enter", "drain"} => gpc \in {"enter", "drain"})
         \/ call' = call + 1
  PROVE  Begun \subseteq Begun'
BY DEF Begun, TypeOK, Calls, G!Units

\* A step adds to what is left behind only by units that have begun.
LEMMA AgeKept ==
  ASSUME AgeInv, Begun \subseteq Begun',
         running' = running \/ running' = G!Nobody \/ running'.unit \in Begun',
         jobs' \in Seq({j \in G!Jobs : j.unit \in Begun}),
         spawned' \subseteq Begun',
         \A id \in PromiseIds : issuer'[id] = issuer[id] \/ issuer'[id] \in Begun',
         \A u \in G!Units : await'[u] \in {await[u], G!Nothing} \/ u \in Begun'
  PROVE  AgeInv'
<1>1. jobs' \in Seq({j \in G!Jobs : j.unit \in Begun'})
  <2>1. {j \in G!Jobs : j.unit \in Begun} \subseteq {j \in G!Jobs : j.unit \in Begun'}
    OBVIOUS
  <2> QED
    BY <2>1, SeqOfLarger
<1> QED
  BY <1>1 DEF AgeInv, G!Jobs

LEMMA AgeBoundary ==
  ASSUME TypeOK, RPCPlaces, AgeInv,
         \/ \E async \in BOOLEAN : StartCall(async)
         \/ \E id \in PromiseIds : StartSettlement(id)
         \/ ExportReturns \/ LoopEnds \/ GuestFails
  PROVE  AgeInv'
<1>1. Begun \subseteq Begun'
  BY BegunGrows, StartCallEffect, StartSettlementEffect, ExportReturnsEffect, LoopEndsEffect,
     GuestFailsEffect
<1>2. /\ running' \in {running, G!Nobody}
      /\ UNCHANGED <<jobs, await, issuer, spawned>>
  BY StartCallEffect, StartSettlementEffect, ExportReturnsEffect, LoopEndsEffect,
     GuestFailsEffect
<1> QED
  BY <1>1, <1>2, AgeKept DEF AgeInv

LEMMA AgeRuntime ==
  ASSUME TypeOK, G!GuestTypeOK, PlaceInv, AgeInv, Runtime
  PROVE  AgeInv'
<1>1. UNCHANGED call
  BY HostStill
<1>2. CASE G!DiscardStale(call)
  <2>1. Begun \subseteq Begun'
    BY <1>1, <1>2, BegunGrows DEF G!DiscardStale
  <2>2. running' = running \/ running'.unit \in Begun'
    BY <1>1, <1>2 DEF G!DiscardStale, G!Thread, Begun, TypeOK, Calls, G!Units
  <2> QED
    BY <1>2, <2>1, <2>2, AgeKept DEF G!DiscardStale, AgeInv
<1>3. CASE G!DrainDone(call)
  <2>1. Begun \subseteq Begun'
    BY <1>1, <1>3, BegunGrows DEF G!DrainDone
  <2>2. running'.unit \in Begun'
    BY <1>1, <1>3 DEF G!DrainDone, G!Thread, Begun, TypeOK, Calls, G!Units
  <2> QED
    BY <1>3, <2>1, <2>2, AgeKept DEF G!DrainDone, AgeInv
<1>4. CASE G!RunJob
  <2>1. Begun \subseteq Begun'
    BY <1>1, <1>4, BegunGrows DEF G!RunJob
  <2>2. /\ Head(jobs) \in {j \in G!Jobs : j.unit \in Begun}
        /\ Tail(jobs) \in Seq({j \in G!Jobs : j.unit \in Begun})
    BY <1>4 DEF G!RunJob, AgeInv
  <2>3. running'.unit \in Begun'
    BY <1>4, <2>1, <2>2 DEF G!RunJob, G!Thread
  <2> QED
    BY <1>4, <2>1, <2>2, <2>3, AgeKept DEF G!RunJob, AgeInv
<1>5. CASE G!JobsDone
  <2>1. Begun \subseteq Begun'
    BY <1>1, <1>5, BegunGrows DEF G!JobsDone
  <2> QED
    BY <1>5, <2>1, AgeKept DEF G!JobsDone, AgeInv
<1>6. CASE G!SettleRPC
  <2>1. Begun \subseteq Begun'
    BY <1>1, <1>6, BegunGrows DEF G!SettleRPC
  <2>2. jobs' \in Seq({j \in G!Jobs : j.unit \in Begun})
    <3>1. arg \in PromiseIds /\ arg # G!Nothing
      BY <1>6, PromiseIdAssumption DEF G!SettleRPC, PlaceInv
    <3>2. G!wake(arg) \in Seq({j \in G!Jobs : j.unit \in Begun})
      <4>1. {j \in G!Jobs : j.kind = "main" /\ await[j.unit] = arg}
              \subseteq {j \in G!Jobs : j.unit \in Begun}
        BY <3>1 DEF AgeInv, G!Jobs
      <4> QED
        BY <4>1, WakeType, SeqOfLarger
    <3> QED
      BY <1>6, <3>2 DEF G!SettleRPC, AgeInv
  <2>3. \A u \in G!Units : await'[u] \in {await[u], G!Nothing}
    BY <1>6 DEF G!SettleRPC
  <2> QED
    BY <1>6, <2>1, <2>2, <2>3, AgeKept DEF G!SettleRPC, AgeInv
<1> QED
  BY <1>2, <1>3, <1>4, <1>5, <1>6 DEF Runtime

LEMMA AgeScript ==
  ASSUME TypeOK, G!GuestTypeOK, PlaceInv, AgeInv, Script
  PROVE  AgeInv'
<1> DEFINE Old == {j \in G!Jobs : j.unit \in Begun}
<1>1. /\ running # G!Nobody /\ G!Me \in G!Units
      /\ UNCHANGED call /\ gpc \in {"drain", "script", "jobs"}
      /\ jobs \in Seq(Old) /\ G!Me \in Begun
  BY HostStill, RunningUnit DEF Script, PlaceInv, AgeInv, G!Me
<1>2. gpc' = gpc \/ gpc' = "jobs"
  BY DEF Script, G!JsSpawn, G!JsOpenGate, G!JsTaskEnd, G!JsRPCThrows, G!JsAwait,
     G!JsEnd, G!Suspends
<1>3. Begun \subseteq Begun' /\ G!Me \in Begun'
  BY <1>1, <1>2, BegunGrows
<1>4. G!Job("task", G!Me) \in Old /\ G!Job("main", G!Me) \in Old
  BY <1>1 DEF G!Jobs, G!Job
<1>5. CASE G!JsSpawn
  <2>1. jobs' \in Seq(Old) /\ spawned' \subseteq Begun'
    BY <1>1, <1>3, <1>4, <1>5 DEF G!JsSpawn, AgeInv
  <2> QED
    BY <1>3, <1>5, <2>1, AgeKept DEF G!JsSpawn
<1>6. CASE G!JsOpenGate
  <2>1. {j \in G!Jobs : j.kind = "main" /\ await[j.unit] = G!Gate} \subseteq Old
    BY DEF AgeInv, G!Jobs, G!Gate, G!Nothing
  <2>2. jobs' \in Seq(Old)
    <3>1. G!wake(G!Gate) \in Seq(Old)
      BY <2>1, WakeType, SeqOfLarger
    <3> QED
      BY <1>1, <1>6, <3>1 DEF G!JsOpenGate
  <2>3. \A u \in G!Units : await'[u] \in {await[u], G!Nothing}
    BY <1>6 DEF G!JsOpenGate
  <2> QED
    BY <1>3, <1>6, <2>2, <2>3, AgeKept DEF G!JsOpenGate, AgeInv
<1>7. CASE G!JsTaskEnd
  BY <1>1, <1>3, <1>7, AgeKept DEF G!JsTaskEnd, AgeInv
<1>8. CASE \E id \in PromiseIds : G!JsRPCThrows(id)
  <2>1. \A x \in PromiseIds : issuer'[x] = issuer[x] \/ issuer'[x] \in Begun'
    BY <1>3, <1>8 DEF G!JsRPCThrows, G!GuestTypeOK
  <2> QED
    BY <1>1, <1>3, <1>8, <2>1, AgeKept DEF G!JsRPCThrows, AgeInv
<1>9. CASE \E p \in PromiseIds \cup {G!Gate} : G!JsAwait(p)
  <2>1. PICK p \in PromiseIds \cup {G!Gate} : G!JsAwait(p)
    BY <1>9
  <2>2. jobs' \in Seq(Old)
    BY <1>1, <1>4, <2>1, AwaitEffect
  <2>3. \A u \in G!Units : await'[u] = await[u] \/ u \in Begun'
    BY <1>3, <2>1, AwaitEffect DEF G!GuestTypeOK
  <2> QED
    BY <1>3, <2>1, <2>2, <2>3, AgeKept DEF G!JsAwait, G!Suspends, AgeInv
<1>10. CASE \E isError \in BOOLEAN : G!JsEnd(isError)
  <2>1. jobs' \in Seq(Old)
    <3>1. G!Job("fulfilled", G!Me) \in Old /\ G!Job("rejected", G!Me) \in Old
      BY <1>1 DEF G!Jobs, G!Job
    <3> QED
      BY <1>1, <1>10, <3>1 DEF G!JsEnd
  <2> QED
    BY <1>3, <1>10, <2>1, AgeKept DEF G!JsEnd, G!Suspends, AgeInv
<1> QED
  BY <1>5, <1>6, <1>7, <1>8, <1>9, <1>10 DEF Script

LEMMA AgeImports ==
  ASSUME TypeOK, G!GuestTypeOK, RPCPlaces, PlaceInv, AgeInv,
         \/ \E id \in PromiseIds : CallRPC(id)
         \/ \E isError \in BOOLEAN : CallSetResult(isError)
         \/ Polls \/ Outside \/ UNCHANGED ivars
  PROVE  AgeInv'
<1>1. CASE \E id \in PromiseIds : CallRPC(id)
  <2>1. PICK id \in PromiseIds : CallRPC(id)
    BY <1>1
  <2>2. Begun \subseteq Begun'
    BY <2>1, CallRPCEffect, BegunGrows
  <2>3. running.unit \in Begun'
    BY <2>1, <2>2, CallRPCEffect DEF AgeInv
  <2>4. \A x \in PromiseIds : issuer'[x] = issuer[x] \/ issuer'[x] \in Begun'
    BY <2>1, <2>3, CallRPCEffect
  <2> QED
    BY <2>1, <2>2, <2>4, CallRPCEffect, AgeKept DEF AgeInv
<1>2. CASE \E isError \in BOOLEAN : CallSetResult(isError)
  <2>1. UNCHANGED <<call, issuer, await, spawned>>
    BY <1>2, SetResultEffect
  <2>2. /\ running' \in {running, G!Nobody} /\ (gpc' = gpc \/ gpc' \in {"jobs", "ret"})
        /\ jobs' = jobs \/ (jobs # << >> /\ jobs' = Tail(jobs))
    BY <1>2 DEF CallSetResult, G!JsEndDirect, G!ReportJob, G!SettleThrows
  <2>3. Begun \subseteq Begun'
    BY <2>1, <2>2, BegunGrows
  <2>4. jobs' \in Seq({j \in G!Jobs : j.unit \in Begun})
    BY <2>2 DEF AgeInv
  <2> QED
    BY <2>1, <2>2, <2>3, <2>4, AgeKept DEF AgeInv
<1>3. CASE Polls \/ Outside \/ UNCHANGED ivars
  <2>1. Begun \subseteq Begun'
    BY <1>3, OutsideKeeps, BegunGrows
  <2> QED
    BY <1>3, <2>1, OutsideKeeps, AgeKept DEF AgeInv
<1> QED
  BY <1>1, <1>2, <1>3

-----------------------------------------------------------------------------
(* What the threads wait for. *)

LEMMA AwaitBoundary ==
  ASSUME TypeOK, G!GuestTypeOK, RPCPlaces, MapInv, AgeInv, AwaitInv,
         \/ \E async \in BOOLEAN : StartCall(async)
         \/ \E id \in PromiseIds : StartSettlement(id)
         \/ ExportReturns \/ LoopEnds \/ GuestFails
  PROVE  AwaitInv'
<1>1. CASE \E async \in BOOLEAN : StartCall(async)
  <2>1. \A id \in PromiseIds : issuer[id] # call'
    <3>1. call' = call + 1 /\ call \in Nat
      BY <1>1, StartCallEffect DEF TypeOK, Calls
    <3>2. \A id \in PromiseIds : issuer[id] = G!NoUnit \/ issuer[id] \in Begun
      BY DEF AgeInv
    <3> QED
      BY <3>1, <3>2 DEF Begun, G!NoUnit, G!Units
  <2> QED
    BY <1>1, <2>1, StartCallEffect DEF AwaitInv
<1>2. CASE \E id \in PromiseIds : StartSettlement(id)
  BY <1>2, StartSettlementEffect DEF AwaitInv, GivingUp
<1>3. CASE ExportReturns
  BY <1>3, ExportReturnsEffect DEF AwaitInv, GivingUp, MapInv
<1>4. CASE LoopEnds \/ GuestFails
  BY <1>4, LoopEndsEffect, GuestFailsEffect DEF AwaitInv
<1> QED
  BY <1>1, <1>2, <1>3, <1>4

LEMMA AwaitRuntime ==
  ASSUME TypeOK, G!GuestTypeOK, PlaceInv, AgeInv, AwaitInv, Runtime
  PROVE  AwaitInv'
<1>1. UNCHANGED <<pc, call, during, scriptError>>
  BY HostStill
<1>2. CASE G!DiscardStale(call)
  BY <1>1, <1>2 DEF G!DiscardStale, AwaitInv, GivingUp
<1>3. CASE G!DrainDone(call)
  <2>1. \A id \in PromiseIds : issuer[id] # call
    BY <1>3 DEF G!DrainDone, AgeInv, Begun, TypeOK, Calls, G!NoUnit
  <2> QED
    BY <1>1, <1>3, <2>1 DEF G!DrainDone, AwaitInv
<1>4. CASE G!RunJob \/ G!JobsDone
  BY <1>1, <1>4 DEF G!RunJob, G!JobsDone, AwaitInv, GivingUp
<1>5. CASE G!SettleRPC
  <2>1. \A u \in G!Units : await'[u] = IF arg \in pendingRpcs /\ await[u] = arg
                                       THEN G!Nothing ELSE await[u]
    BY <1>5 DEF G!SettleRPC
  <2>2. G!Nothing \notin PromiseIds
    BY PromiseIdAssumption
  <2>3. /\ pendingRpcs' = pendingRpcs \ {arg} /\ issuer' = issuer
        /\ settled' = settled \cup ({arg} \cap pendingRpcs) /\ gpc = "settle"
    BY <1>5 DEF G!SettleRPC
  <2> QED
    BY <1>1, <2>1, <2>2, <2>3 DEF AwaitInv, GivingUp
<1> QED
  BY <1>2, <1>3, <1>4, <1>5 DEF Runtime

LEMMA AwaitScript ==
  ASSUME TypeOK, G!GuestTypeOK, PlaceInv, AwaitInv, Script
  PROVE  AwaitInv'
<1>1. /\ UNCHANGED <<pc, call, during, scriptError>> /\ ~GivingUp
      /\ running # G!Nobody /\ G!Me \in G!Units
  BY HostStill, RunningUnit DEF Script, PlaceInv, GivingUp, G!Me
<1>2. CASE G!JsSpawn \/ G!JsTaskEnd \/ \E isError \in BOOLEAN : G!JsEnd(isError)
  BY <1>1, <1>2 DEF G!JsSpawn, G!JsTaskEnd, G!JsEnd, AwaitInv
<1>3. CASE G!JsOpenGate
  <2>1. \A u \in G!Units : await'[u] \in {await[u], G!Nothing}
    BY <1>3 DEF G!JsOpenGate
  <2>2. G!Nothing \notin PromiseIds
    BY PromiseIdAssumption
  <2> QED
    BY <1>1, <1>3, <2>1, <2>2 DEF G!JsOpenGate, AwaitInv
<1>4. CASE \E id \in PromiseIds : G!JsRPCThrows(id)
  <2>1. PICK id \in PromiseIds : G!JsRPCThrows(id)
    BY <1>4
  <2>2. /\ issuer[id] = G!NoUnit /\ settled' = settled \cup {id} /\ await' = await
        /\ \A x \in PromiseIds \ {id} : issuer'[x] = issuer[x]
        /\ pendingRpcs' = pendingRpcs \cup {id}
    BY <2>1 DEF G!JsRPCThrows, G!GuestTypeOK
  <2>3. \A u \in G!Units : await[u] # id
    BY <2>2 DEF AwaitInv, G!NoUnit, G!Units
  <2> QED
    BY <1>1, <2>2, <2>3 DEF AwaitInv
<1>5. CASE \E p \in PromiseIds \cup {G!Gate} : G!JsAwait(p)
  <2>1. PICK p \in PromiseIds \cup {G!Gate} : G!JsAwait(p)
    BY <1>5
  <2>2. G!Nothing \notin PromiseIds /\ G!Gate \notin PromiseIds
    BY PromiseIdAssumption
  <2>3. \A u \in G!Units : await'[u] = await[u] \/ await'[u] \notin PromiseIds
                            \/ (issuer[await'[u]] = u /\ await'[u] \notin settled)
    BY <1>1, <2>1, <2>2, AwaitEffect DEF G!GuestTypeOK
  <2> QED
    BY <1>1, <2>1, <2>3 DEF G!JsAwait, AwaitInv
<1> QED
  BY <1>2, <1>3, <1>4, <1>5 DEF Script

LEMMA AwaitImports ==
  ASSUME TypeOK, G!GuestTypeOK, RPCPlaces, PlaceInv, AwaitInv,
         \/ \E id \in PromiseIds : CallRPC(id)
         \/ \E isError \in BOOLEAN : CallSetResult(isError)
         \/ Polls \/ Outside \/ UNCHANGED ivars
  PROVE  AwaitInv'
<1>1. CASE \E id \in PromiseIds : CallRPC(id)
  <2>1. PICK id \in PromiseIds : CallRPC(id)
    BY <1>1
  <2>2. ~GivingUp
    BY <2>1, CallRPCEffect DEF PlaceInv, GivingUp
  <2>3. \A u \in G!Units : await[u] # id
    BY <2>1, CallRPCEffect DEF AwaitInv, G!NoUnit, G!Units
  <2> QED
    BY <2>1, <2>2, <2>3, CallRPCEffect DEF AwaitInv
<1>2. CASE \E isError \in BOOLEAN : CallSetResult(isError)
  <2>1. PICK isError \in BOOLEAN : CallSetResult(isError)
    BY <1>2
  <2>2. UNCHANGED <<pc, call, during, settled, issuer, await>> /\ call # NoCall
    BY <2>1, SetResultEffect DEF TypeOK, Calls, NoCall
  <2>3. CASE gpc = "settle"
    <3>1. pc = "settle" /\ gpc' = "ret" /\ scriptError' = call
      BY <2>1, <2>3, SetResultEffect
         DEF CallSetResult, G!JsEndDirect, G!ReportJob, G!SettleThrows, PlaceInv
    <3> QED
      BY <2>2, <3>1 DEF AwaitInv, GivingUp
  <2>4. CASE gpc # "settle"
    <3>1. pendingRpcs' = pendingRpcs /\ gpc # "ret"
      BY <2>1, <2>4 DEF CallSetResult, G!JsEndDirect, G!ReportJob, G!SettleThrows
    <3> QED
      BY <2>2, <3>1 DEF AwaitInv, GivingUp
  <2> QED
    BY <2>3, <2>4
<1>3. CASE Polls \/ Outside \/ UNCHANGED ivars
  BY <1>3, OutsideKeeps DEF AwaitInv, GivingUp
<1> QED
  BY <1>1, <1>2, <1>3

-----------------------------------------------------------------------------
(* The job loop. *)

LEMMA LoopBoundary ==
  ASSUME TypeOK, RPCPlaces, MapInv, PlaceInv, LoopInv,
         \/ \E async \in BOOLEAN : StartCall(async)
         \/ \E id \in PromiseIds : StartSettlement(id)
         \/ ExportReturns \/ LoopEnds \/ GuestFails
  PROVE  LoopInv'
<1>1. CASE \E async \in BOOLEAN : StartCall(async)
  BY <1>1, StartCallEffect DEF LoopInv
<1>2. CASE \E id \in PromiseIds : StartSettlement(id)
  BY <1>2, StartSettlementEffect DEF LoopInv
<1>3. CASE ExportReturns
  BY <1>3, ExportReturnsEffect DEF LoopInv
<1>4. CASE LoopEnds \/ GuestFails
  BY <1>4, LoopEndsEffect, GuestFailsEffect DEF LoopInv, MapInv
<1> QED
  BY <1>1, <1>2, <1>3, <1>4

LEMMA LoopGuest ==
  ASSUME TypeOK, G!GuestTypeOK, RPCPlaces, MapInv, PlaceInv, LoopInv,
         \/ Runtime \/ Script
         \/ \E id \in PromiseIds : CallRPC(id)
         \/ \E isError \in BOOLEAN : CallSetResult(isError)
         \/ Polls \/ Outside \/ UNCHANGED ivars
  PROVE  LoopInv'
<1>1. CASE Runtime
  BY <1>1, HostStill DEF Runtime, G!DiscardStale, G!DrainDone, G!RunJob, G!JobsDone,
     G!SettleRPC, LoopInv
<1>2. CASE Script
  <2>1. gpc' # "ret" /\ pc' # "loop"
    BY <1>2, HostStill DEF Script, PlaceInv, G!JsSpawn, G!JsOpenGate, G!JsTaskEnd,
       G!JsRPCThrows, G!JsAwait, G!JsEnd, G!Suspends
  <2> QED
    BY <2>1 DEF LoopInv
<1>3. CASE \E id \in PromiseIds : CallRPC(id)
  BY <1>3, CallRPCEffect DEF PlaceInv, LoopInv
<1>4. CASE \E isError \in BOOLEAN : CallSetResult(isError)
  <2>1. PICK isError \in BOOLEAN : CallSetResult(isError)
    BY <1>4
  <2>2. UNCHANGED <<pc, call, isAsync>> /\ pc # "loop" /\ call # NoCall
    BY <2>1, SetResultEffect DEF TypeOK, Calls, NoCall
  <2>3. gpc' = "ret" => isError \/ ~isAsync[call]
    BY <2>1 DEF CallSetResult, G!JsEndDirect, G!ReportJob, G!SettleThrows
  <2> QED
    BY <2>1, <2>2, <2>3, SetResultEffect DEF LoopInv
<1>5. CASE Polls \/ Outside \/ UNCHANGED ivars
  BY <1>5, OutsideKeeps DEF LoopInv
<1> QED
  BY <1>1, <1>2, <1>3, <1>4, <1>5

-----------------------------------------------------------------------------
(* All of it together. *)

GuestInv == PlaceInv /\ Delivered /\ AgeInv /\ AwaitInv /\ LoopInv

LEMMA GuestInvInit == InstanceInit => GuestInv
<1> SUFFICES ASSUME InstanceInit PROVE GuestInv
  OBVIOUS
<1>1. Init /\ G!GuestInit(pc = "wasm")
  BY DEF InstanceInit
<1>2. PlaceInv /\ Delivered
  BY <1>1 DEF Init, G!GuestInit, PlaceInv, Delivered
<1>3. AwaitInv
  BY <1>1, PromiseIdAssumption DEF Init, G!GuestInit, AwaitInv, TypeOK, Calls, G!NoUnit
<1>4. LoopInv
  BY <1>1 DEF Init, G!GuestInit, LoopInv
<1>5. AgeInv
  BY <1>1 DEF G!GuestInit, AgeInv
<1> QED
  BY <1>2, <1>3, <1>4, <1>5 DEF GuestInv

LEMMA GuestInvStep ==
  TypeOK /\ IInv /\ G!GuestTypeOK /\ MapInv /\ GuestInv /\ [InstanceNext]_ivars => GuestInv'
<1> SUFFICES ASSUME TypeOK, IInv, G!GuestTypeOK, MapInv, GuestInv, [InstanceNext]_ivars
             PROVE  GuestInv'
  OBVIOUS
<1>1. RPCPlaces /\ PlaceInv /\ Delivered /\ AgeInv /\ AwaitInv /\ LoopInv
  BY DEF IInv, GuestInv
<1>2. PlaceInv'
  BY <1>1, PlaceBoundary, PlaceGuest DEF InstanceNext
<1>3. Delivered'
  BY <1>1, DeliveredBoundary, DeliveredGuest DEF InstanceNext
<1>4. AgeInv'
  BY <1>1, AgeBoundary, AgeRuntime, AgeScript, AgeImports DEF InstanceNext
<1>5. AwaitInv'
  BY <1>1, AwaitBoundary, AwaitRuntime, AwaitScript, AwaitImports DEF InstanceNext
<1>6. LoopInv'
  BY <1>1, LoopBoundary, LoopGuest DEF InstanceNext
<1> QED
  BY <1>2, <1>3, <1>4, <1>5, <1>6 DEF GuestInv

LEMMA InstanceInductive ==
  InstanceSpec => [](TypeOK /\ IInv /\ G!GuestTypeOK /\ MapInv /\ GuestInv)
<1>1. IInv => RPCPlaces
  BY DEF IInv
<1> QED
  BY <1>1, InstanceIsHost, Inductive, GuestTypeInit, GuestTypeStep, MapInvInit, MapInvStep,
     GuestInvInit, GuestInvStep, PTL DEF InstanceSpec

-----------------------------------------------------------------------------
(* The promises of a call. *)

\* A promise of this call that the guest keeps while the loop waits has its answer
\* under way, for any number of promises: what it awaits will come, unless the caller's
\* context ends.
THEOREM PromiseHasAnswerHolds == InstanceSpec => []PromiseHasAnswer
<1>1. TypeOK /\ IInv /\ G!GuestTypeOK /\ MapInv /\ GuestInv => PromiseHasAnswer
  <2> SUFFICES ASSUME TypeOK, IInv, G!GuestTypeOK, MapInv, GuestInv,
                      pc = "loop", call \notin ctxDone,
                      NEW id \in pendingRpcs, during[id] = call
               PROVE  st[id] \in {"handling", "answered", "buffered"}
    BY DEF PromiseHasAnswer
  <2>1. id \in PromiseIds /\ st[id] \in Stages /\ call # NoCall
    BY DEF G!GuestTypeOK, TypeOK, Calls, NoCall
  <2>2. st[id] \notin {"fresh", "queued", "discarded"}
    BY <2>1 DEF IInv, RPCPlaces
  <2>3. st[id] # "dropped"
    <3>1. call \notin rpcDone
      BY DEF IInv, CallPlaces, TypeOK, Calls
    <3> QED
      BY <2>1, <2>2, <3>1 DEF IInv, RPCPlaces
  <2>4. st[id] # "delivered"
    BY DEF GuestInv, Delivered, GivingUp, MapInv
  <2> QED
    BY <2>1, <2>2, <2>3, <2>4 DEF Stages
<1> QED
  BY <1>1, InstanceInductive, PTL

\* A call whose registers hold an error returns it.
LEMMA ErrorIsReturned ==
  ASSUME scriptError # NoCall
  PROVE  RegisterOutcome.kind = "error"
BY DEF RegisterOutcome, Outcome

LEMMA SettledStep ==
  ASSUME TypeOK, IInv, IInv', G!GuestTypeOK, MapInv, GuestInv, PromisesSettled,
         [InstanceNext]_ivars
  PROVE  PromisesSettled'
<1> DEFINE Over(o) == o.kind \in {"none", "value"}
<1>0. /\ pendingRpcs \subseteq PromiseIds /\ call \in Calls
      /\ \A id \in PromiseIds : during[id] \in Calls \cup {NoCall} /\ during[id] <= call
  BY DEF G!GuestTypeOK, TypeOK, IInv, RPCPlaces
<1>1. CASE UNCHANGED <<pendingRpcs, during, returned, isAsync>>
  BY <1>1 DEF PromisesSettled
<1>2. CASE \E async \in BOOLEAN : StartCall(async)
  <2>1. \A id \in pendingRpcs : during[id] # call'
    BY <1>0, <1>2, StartCallEffect DEF Calls, NoCall
  <2> QED
    BY <1>0, <1>2, <2>1, StartCallEffect DEF PromisesSettled
<1>3. CASE (ExportReturns /\ pc' = "idle") \/ LoopEnds \/ GuestFails
  <2>1. /\ UNCHANGED <<pendingRpcs, during, isAsync>>
        /\ \A c \in Calls \ {call} : returned'[c] = returned[c]
        /\ \A id \in PromiseIds : st'[id] = "delivered" <=> st[id] = "delivered"
    BY <1>0, <1>3, ExportReturnsEffect, LoopEndsEffect, GuestFailsEffect DEF TypeOK
  <2>2. isAsync[call] /\ Over(returned'[call]) => scriptError = NoCall /\ gpc # "settle"
    <3>1. CASE GuestFails
      BY <1>0, <3>1, GuestFailsEffect DEF TypeOK, Outcome
    <3>2. CASE LoopEnds
      BY <1>0, <3>2, LoopEndsEffect, ErrorIsReturned DEF TypeOK, MapInv
    <3>3. CASE ExportReturns /\ pc' = "idle"
      <4>1. isAsync[call] => call # 0
        BY DEF IInv, CallPlaces
      <4> QED
        BY <1>0, <3>3, <4>1, ExportReturnsEffect, ErrorIsReturned DEF TypeOK
    <3> QED
      BY <1>3, <3>1, <3>2, <3>3
  <2>3. \A id \in pendingRpcs : during[id] = call => ~(isAsync[call] /\ Over(returned'[call]))
    <3> SUFFICES ASSUME NEW id \in pendingRpcs, during[id] = call, isAsync[call],
                        Over(returned'[call])
                 PROVE  FALSE
      OBVIOUS
    <3>1. pc # "idle"
      BY <1>3, ExportReturnsEffect, LoopEndsEffect, GuestFailsEffect DEF MapInv
    <3>2. st[id] = "delivered"
      BY <1>0, <2>1 DEF IInv, AllServed, Calls, NoCall
    <3> QED
      BY <2>2, <3>1, <3>2 DEF GuestInv, Delivered, GivingUp
  <2> QED
    BY <1>0, <2>1, <2>3 DEF PromisesSettled
<1>4. CASE Runtime \/ Script \/ \E isError \in BOOLEAN : CallSetResult(isError)
  <2>1. UNCHANGED <<during, returned, isAsync>>
    BY <1>4, HostStill, SetResultEffect
  <2>2. \/ pendingRpcs' \subseteq pendingRpcs
        \/ \E id \in PromiseIds : st[id] = "fresh" /\ pendingRpcs' = pendingRpcs \cup {id}
    BY <1>4 DEF Runtime, G!DiscardStale, G!DrainDone, G!RunJob, G!JobsDone, G!SettleRPC,
       Script, G!JsSpawn, G!JsOpenGate, G!JsTaskEnd, G!JsRPCThrows, G!JsAwait, G!JsEnd,
       CallSetResult, G!JsEndDirect, G!ReportJob, G!SettleThrows
  <2> QED
    BY <2>1, <2>2 DEF PromisesSettled, IInv, RPCPlaces
<1>5. CASE \E id \in PromiseIds : CallRPC(id)
  <2>1. PICK id \in PromiseIds : CallRPC(id)
    BY <1>5
  <2>2. returned[call].kind = "open"
    BY <2>1, <1>0, CallRPCEffect DEF IInv, CallPlaces
  <2> QED
    BY <1>0, <2>1, <2>2, CallRPCEffect DEF PromisesSettled, IInv
<1>6. CASE \E id \in PromiseIds : StartSettlement(id)
  BY <1>1, <1>6, StartSettlementEffect DEF IInv
<1>7. CASE ExportReturns /\ pc' = "loop"
  BY <1>1, <1>7, ExportReturnsEffect
<1>8. CASE Polls \/ Outside \/ UNCHANGED ivars
  BY <1>1, <1>8, OutsideKeeps
<1> QED
  BY <1>2, <1>3, <1>4, <1>5, <1>6, <1>7, <1>8, ExportReturnsEffect DEF InstanceNext

\* When an async call returns a value, or nothing, every promise its script made is
\* settled in the guest, for any number of promises and calls: the service loop does
\* not leave with an answer that was received and not fed back (instance.go:371).
THEOREM PromisesSettledHolds == InstanceSpec => []PromisesSettled
<1>1. InstanceInit => PromisesSettled
  BY DEF InstanceInit, G!GuestInit, PromisesSettled
<1> QED
  BY <1>1, InstanceInductive, SettledStep, PTL DEF InstanceSpec

LEMMA QuiescentStep ==
  ASSUME TypeOK, IInv, G!GuestTypeOK, MapInv, GuestInv, PromisesSettled', Quiescent,
         [InstanceNext]_ivars
  PROVE  Quiescent'
<1>1. CASE \/ \E async \in BOOLEAN : StartCall(async)
           \/ \E id \in PromiseIds : StartSettlement(id) \/ CallRPC(id)
           \/ Runtime \/ Script \/ \E isError \in BOOLEAN : CallSetResult(isError)
  <2>1. pc' # "idle"
    BY <1>1, StartCallEffect, StartSettlementEffect, CallRPCEffect, HostStill, SetResultEffect
       DEF IInv
  <2> QED
    BY <2>1 DEF Quiescent
<1>2. CASE Polls \/ Outside \/ UNCHANGED ivars
  BY <1>2, OutsideKeeps DEF Quiescent
<1>3. CASE ExportReturns \/ LoopEnds
  <2> SUFFICES ASSUME pc' = "idle", isAsync[call], returned'[call].kind \in {"none", "value"}
               PROVE  jobs = << >> /\ await[call] \notin PromiseIds
    BY <1>3, ExportReturnsEffect, LoopEndsEffect DEF Quiescent
  <2>1. /\ UNCHANGED <<pendingRpcs, during, isAsync>>
        /\ pc = "loop" \/ gpc = "ret"
        /\ pc # "idle" /\ call \in Calls /\ call # NoCall /\ call \in G!Units
    BY <1>3, ExportReturnsEffect, LoopEndsEffect DEF MapInv, TypeOK, Calls, NoCall, G!Units
  <2>2. scriptError = NoCall
    <3>1. call # 0
      BY DEF IInv, CallPlaces
    <3>2. returned'[call] = RegisterOutcome
      BY <1>3, <2>1, <3>1, ExportReturnsEffect, LoopEndsEffect DEF TypeOK
    <3> QED
      BY <3>2, ErrorIsReturned
  <2>3. jobs = << >>
    BY <2>1, <2>2 DEF GuestInv, LoopInv
  <2>4. ASSUME await[call] \in PromiseIds PROVE FALSE
    <3>1. issuer[await[call]] = call /\ await[call] \notin settled
      BY <2>1, <2>4 DEF GuestInv, AwaitInv
    <3>2. await[call] \in pendingRpcs /\ during[await[call]] = call
      BY <2>1, <2>2, <2>4, <3>1 DEF GuestInv, AwaitInv, GivingUp
    <3> QED
      BY <2>1, <3>2 DEF PromisesSettled
  <2> QED
    BY <2>3, <2>4
<1>4. CASE GuestFails
  BY <1>4, GuestFailsEffect DEF Quiescent, TypeOK, Outcome
<1> QED
  BY <1>1, <1>2, <1>3, <1>4 DEF InstanceNext

\* An async call that returned a value, or nothing, has no job in the queue and no main
\* thread that waits for an RPC: nothing of its script is left to run in a later call.
THEOREM QuiescentHolds == InstanceSpec => []Quiescent
<1>1. InstanceInit => Quiescent
  <2>1. 0 \in Calls
    BY HostAssumption DEF Calls
  <2> QED
    BY <2>1 DEF InstanceInit, Init, Quiescent
<1> QED
  BY <1>1, InstanceInductive, PromisesSettledHolds, QuiescentStep, PTL DEF InstanceSpec

-----------------------------------------------------------------------------
(* Whose report a call returns. *)

LEMMA OwnInit == InstanceInit => OwnInv
<1> SUFFICES ASSUME InstanceInit PROVE OwnInv
  OBVIOUS
<1>1. /\ running = G!Nobody /\ jobs = << >> /\ errorBy = NoCall /\ valueBy = NoCall
      /\ answerBy = [c \in Calls |-> NoCall] /\ await = [u \in G!Units |-> G!Nothing]
  BY DEF InstanceInit, G!GuestInit
<1>2. running.kind # "main"
  BY <1>1 DEF G!Nobody, G!Thread
<1> QED
  BY <1>1, <1>2, PromiseIdAssumption DEF OwnInv, OwnReport

\* What a call returns is what is in the registers.
LEMMA AnswersOwn ==
  ASSUME TypeOK, ReportsTypeOK, OwnReport, Answers,
         errorBy \in {NoCall, call}, valueBy \in {NoCall, call}
  PROVE  /\ OwnReport' /\ errorBy' = errorBy /\ valueBy' = valueBy
BY DEF Answers, TypeOK, ReportsTypeOK, OwnReport

\* The queue stays in order where the job loop is not left, but by a trap.
LEMMA MineKept ==
  ASSUME OwnInv, ~gateOpen, dead => dead',
         ~dead' => call' = call \/ gpc # "jobs",
         ~dead' => (gpc = "jobs" => gpc' = "jobs"),
         ~dead' => (jobs \in Seq(Mine) => jobs' \in Seq(Mine))
  PROVE  ~dead' => jobs' \in Seq(Mine')
<1> SUFFICES ASSUME ~dead' PROVE jobs' \in Seq(Mine')
  OBVIOUS
<1>1. jobs' \in Seq(Mine)
  BY DEF OwnInv
<1>2. Mine \subseteq Mine'
  BY DEF Mine
<1> QED
  BY <1>1, <1>2, SeqOfLarger

LEMMA OwnBoundary ==
  ASSUME TypeOK, RPCPlaces, G!GuestTypeOK, ReportsTypeOK, MapInv, PlaceInv, OwnInv,
         \/ \E async \in BOOLEAN : StartCall(async)
         \/ \E id \in PromiseIds : StartSettlement(id)
         \/ ExportReturns \/ LoopEnds \/ GuestFails
  PROVE  OwnInv'
<1> SUFFICES ASSUME ~gateOpen' PROVE OwnInv'
  BY DEF OwnInv
<1>1. /\ ~gateOpen /\ (dead => dead') /\ UNCHANGED <<jobs, await, during>>
      /\ gpc' # "jobs" /\ running' = G!Nobody
      /\ ~dead' => gpc # "jobs"
  BY StartCallEffect, StartSettlementEffect, ExportReturnsEffect, LoopEndsEffect,
     GuestFailsEffect DEF PlaceInv, MapInv
<1>2. ~dead' => jobs' \in Seq(Mine')
  BY <1>1, MineKept
<1>3. running'.kind # "main"
  BY <1>1 DEF G!Nobody, G!Thread
<1>4. errorBy' \in {NoCall, call'} /\ valueBy' \in {NoCall, call'} /\ OwnReport'
  <2>1. errorBy \in {NoCall, call} /\ valueBy \in {NoCall, call} /\ OwnReport
    BY <1>1 DEF OwnInv
  <2>2. CASE \E async \in BOOLEAN : StartCall(async)
    BY <2>1, <2>2, StartCallEffect DEF OwnReport
  <2>3. CASE Answers /\ call' = call
    BY <2>1, <2>3, AnswersOwn
  <2>4. CASE UNCHANGED <<errorBy, valueBy, answerBy, call>>
    BY <2>1, <2>4 DEF OwnReport
  <2> QED
    BY <2>2, <2>3, <2>4, StartSettlementEffect, ExportReturnsEffect, LoopEndsEffect,
       GuestFailsEffect
<1> QED
  BY <1>1, <1>2, <1>3, <1>4 DEF OwnInv

LEMMA OwnRuntime ==
  ASSUME TypeOK, RPCPlaces, G!GuestTypeOK, PlaceInv, OwnInv, Runtime
  PROVE  OwnInv'
<1> SUFFICES ASSUME ~gateOpen' PROVE OwnInv'
  BY DEF OwnInv
<1>1. /\ UNCHANGED <<call, during, errorBy, valueBy, answerBy, gateOpen, dead>>
      /\ ~gateOpen /\ ~dead
  <2>1. UNCHANGED <<call, during, errorBy, valueBy, answerBy>>
    BY HostStill
  <2>2. UNCHANGED gateOpen /\ UNCHANGED dead /\ (~dead \/ gpc \in {"drain", "jobs"})
    BY DEF Runtime, G!DiscardStale, G!DrainDone, G!RunJob, G!JobsDone, G!SettleRPC
  <2> QED
    BY <2>1, <2>2 DEF PlaceInv
<1>2. errorBy' \in {NoCall, call'} /\ valueBy' \in {NoCall, call'} /\ OwnReport'
  BY <1>1 DEF OwnInv, OwnReport
<1>3. CASE G!DiscardStale(call)
  <2>1. jobs' \in Seq(Mine')
    BY <1>1, <1>3, MineKept DEF G!DiscardStale
  <2>2. running'.kind = "main" => running'.unit = call /\ gpc' = "script"
    BY <1>1, <1>3 DEF G!DiscardStale, G!Thread, OwnInv
  <2> QED
    BY <1>1, <1>2, <1>3, <2>1, <2>2 DEF G!DiscardStale, OwnInv
<1>4. CASE G!DrainDone(call)
  <2>1. jobs' \in Seq(Mine')
    BY <1>1, <1>4, MineKept DEF G!DrainDone
  <2>2. running'.unit = call /\ gpc' = "script"
    BY <1>1, <1>4 DEF G!DrainDone, G!Thread
  <2> QED
    BY <1>1, <1>2, <1>4, <2>1, <2>2 DEF G!DrainDone, OwnInv
<1>5. CASE G!RunJob
  <2>1. Head(jobs) \in Mine /\ (jobs \in Seq(Mine) => Tail(jobs) \in Seq(Mine))
    BY <1>1, <1>5 DEF G!RunJob, OwnInv
  <2>2. jobs' \in Seq(Mine')
    BY <1>1, <1>5, <2>1, MineKept DEF G!RunJob
  <2>3. running'.kind = "main" => running'.unit = call /\ gpc' = "jobs"
    BY <1>5, <2>1 DEF G!RunJob, G!Thread, Mine
  <2> QED
    BY <1>1, <1>2, <1>5, <2>2, <2>3 DEF G!RunJob, OwnInv
<1>6. CASE G!JobsDone
  <2>1. jobs' \in Seq(Mine')
    BY <1>6 DEF G!JobsDone
  <2> QED
    BY <1>1, <1>2, <1>6, <2>1 DEF G!JobsDone, G!Nobody, G!Thread, OwnInv
<1>7. CASE G!SettleRPC
  <2>1. G!wake(arg) \in Seq(Mine')
    <3>1. arg \in PromiseIds /\ during[arg] = call /\ gpc' = "jobs"
      BY <1>7 DEF G!SettleRPC, PlaceInv
    <3>2. {j \in G!Jobs : j.kind = "main" /\ await[j.unit] = arg} \subseteq Mine'
      BY <1>1, <3>1 DEF OwnInv, Mine, G!Jobs
    <3> QED
      BY <3>2, WakeType, SeqOfLarger
  <2>2. jobs \in Seq(Mine')
    <3>1. jobs \in Seq(Mine) /\ Mine \subseteq Mine'
      BY <1>1, <1>7 DEF G!SettleRPC, OwnInv, Mine
    <3> QED
      BY <3>1, SeqOfLarger
  <2>3. jobs' \in Seq(Mine')
    BY <1>7, <2>1, <2>2 DEF G!SettleRPC
  <2>4. \A u \in G!Units : await'[u] \in PromiseIds => await'[u] = await[u]
    BY <1>7, PromiseIdAssumption DEF G!SettleRPC
  <2>5. running'.kind # "main"
    BY <1>7 DEF G!SettleRPC, PlaceInv, G!Nobody, G!Thread
  <2> QED
    BY <1>1, <1>2, <2>3, <2>4, <2>5 DEF OwnInv
<1> QED
  BY <1>3, <1>4, <1>5, <1>6, <1>7 DEF Runtime

LEMMA OwnScript ==
  ASSUME TypeOK, RPCPlaces, G!GuestTypeOK, PlaceInv, AwaitInv, OwnInv, Script
  PROVE  OwnInv'
<1> SUFFICES ASSUME ~gateOpen' PROVE OwnInv'
  BY DEF OwnInv
<1>1. /\ UNCHANGED <<pc, call, during, errorBy, valueBy, answerBy>>
      /\ running # G!Nobody /\ G!Me \in G!Units
      /\ ~dead /\ gpc \in {"drain", "script", "jobs"} /\ pc # "idle"
  BY HostStill, RunningUnit DEF Script, PlaceInv, G!Me
<1>2. ~gateOpen /\ UNCHANGED dead
  BY DEF Script, G!JsSpawn, G!JsOpenGate, G!JsTaskEnd, G!JsRPCThrows, G!JsAwait, G!JsEnd
<1>3. errorBy' \in {NoCall, call'} /\ valueBy' \in {NoCall, call'} /\ OwnReport'
  BY <1>1, <1>2 DEF OwnInv, OwnReport
<1>4. G!Nobody.kind # "main"
  BY DEF G!Nobody, G!Thread
<1>5. CASE G!JsSpawn
  <2>1. G!Job("task", G!Me) \in Mine
    BY <1>1 DEF Mine, G!Jobs, G!Job
  <2>2. jobs' \in Seq(Mine')
    BY <1>1, <1>2, <1>5, <2>1, MineKept DEF G!JsSpawn
  <2> QED
    BY <1>1, <1>2, <1>3, <1>5, <2>2 DEF G!JsSpawn, OwnInv
<1>6. CASE G!JsTaskEnd \/ \E id \in PromiseIds : G!JsRPCThrows(id)
  <2>1. /\ UNCHANGED <<jobs, gpc, await>>
        /\ running' \in {running, G!Nobody}
    BY <1>6 DEF G!JsTaskEnd, G!JsRPCThrows
  <2>2. jobs' \in Seq(Mine')
    BY <1>1, <1>2, <2>1, MineKept
  <2> QED
    BY <1>1, <1>2, <1>3, <1>4, <2>1, <2>2 DEF OwnInv
<1>7. CASE G!JsOpenGate
  BY <1>7 DEF G!JsOpenGate
<1>8. ASSUME G!Suspends
      PROVE  /\ G!Me = call /\ gpc' = "jobs" /\ running' = G!Nobody
             /\ Mine \subseteq Mine' /\ jobs \in Seq(Mine')
             /\ \A k \in {"main", "fulfilled", "rejected"} : G!Job(k, G!Me) \in Mine'
  <2>1. /\ G!Me = call /\ gpc' = "jobs" /\ running' = G!Nobody
    BY <1>2, <1>8 DEF G!Suspends, G!Main, G!Me, OwnInv
  <2>2. Mine \subseteq Mine'
    BY <1>1, <2>1 DEF Mine
  <2>3. jobs \in Seq(Mine')
    BY <1>1, <1>2, <2>2, SeqOfLarger DEF OwnInv
  <2>4. \A k \in {"main", "fulfilled", "rejected"} : G!Job(k, G!Me) \in Mine'
    BY <1>1, <2>1 DEF Mine, G!Jobs, G!Job
  <2> QED
    BY <2>1, <2>2, <2>3, <2>4
<1>9. CASE \E p \in PromiseIds \cup {G!Gate} : G!JsAwait(p)
  <2>1. PICK p \in PromiseIds \cup {G!Gate} : G!JsAwait(p)
    BY <1>9
  <2>2. G!Suspends
    BY <2>1 DEF G!JsAwait
  <2>3. jobs' \in Seq(Mine')
    BY <1>8, <2>1, <2>2, AwaitEffect
  <2>4. G!Nothing \notin PromiseIds /\ G!Gate \notin PromiseIds
    BY PromiseIdAssumption
  <2>5. ~GivingUp
    BY <1>1 DEF GivingUp
  <2>6. \A id \in PromiseIds : issuer[id] = call /\ id \notin settled => during[id] = call
    BY <1>1, <2>5 DEF AwaitInv
  <2>7. \A u \in G!Units : await'[u] \in PromiseIds => during[await'[u]] = u
    BY <1>1, <1>2, <1>8, <2>1, <2>2, <2>4, <2>6, AwaitEffect DEF OwnInv, G!GuestTypeOK
  <2> QED
    BY <1>1, <1>3, <1>4, <1>8, <2>2, <2>3, <2>7 DEF OwnInv
<1>10. CASE \E isError \in BOOLEAN : G!JsEnd(isError)
  <2>1. G!Suspends /\ UNCHANGED await
    BY <1>10 DEF G!JsEnd
  <2>2. jobs' \in Seq(Mine')
    BY <1>8, <1>10, <2>1 DEF G!JsEnd
  <2> QED
    BY <1>1, <1>2, <1>3, <1>4, <1>8, <2>1, <2>2 DEF OwnInv
<1> QED
  BY <1>5, <1>6, <1>7, <1>9, <1>10 DEF Script

LEMMA OwnImports ==
  ASSUME TypeOK, RPCPlaces, G!GuestTypeOK, PlaceInv, AwaitInv, OwnInv,
         \/ \E id \in PromiseIds : CallRPC(id)
         \/ \E isError \in BOOLEAN : CallSetResult(isError)
         \/ Polls \/ Outside \/ UNCHANGED ivars
  PROVE  OwnInv'
<1> SUFFICES ASSUME ~gateOpen' PROVE OwnInv'
  BY DEF OwnInv
<1>1. CASE \E id \in PromiseIds : CallRPC(id)
  <2>1. PICK id \in PromiseIds : CallRPC(id)
    BY <1>1
  <2>2. ~gateOpen /\ ~dead /\ \A u \in G!Units : await[u] # id
    BY <2>1, CallRPCEffect DEF PlaceInv, AwaitInv, G!NoUnit, G!Units
  <2>3. ~dead' => jobs' \in Seq(Mine')
    BY <2>1, <2>2, CallRPCEffect, MineKept
  <2> QED
    BY <2>1, <2>2, <2>3, CallRPCEffect DEF OwnInv, OwnReport
<1>2. CASE \E isError \in BOOLEAN : CallSetResult(isError)
  <2>1. PICK isError \in BOOLEAN : CallSetResult(isError)
    BY <1>2
  <2>2. UNCHANGED <<call, during, await, gateOpen, dead, answerBy>> /\ ~gateOpen
    BY <2>1, SetResultEffect
  <2>3. PICK u : /\ ReportsFor(u, isError)
                 /\ \/ u = running.unit /\ G!JsEndDirect(isError, isAsync[call])
                    \/ u = Head(jobs).unit /\ jobs # << >> /\ G!ReportJob(isError)
                    \/ u = call /\ G!SettleThrows
    BY <2>1 DEF CallSetResult
  <2>4. CASE G!JsEndDirect(isError, isAsync[call]) /\ u = running.unit
    <3>1. /\ u = call /\ running' = G!Nobody /\ UNCHANGED jobs /\ gpc # "jobs"
          /\ running'.kind # "main"
      BY <2>2, <2>4 DEF G!JsEndDirect, G!Main, G!Nobody, G!Thread, OwnInv
    <3>2. ~dead' => jobs' \in Seq(Mine')
      BY <2>2, <3>1, MineKept
    <3> QED
      BY <2>2, <2>3, <3>1, <3>2 DEF ReportsFor, OwnInv, OwnReport
  <2>5. CASE G!ReportJob(isError) /\ jobs # << >> /\ u = Head(jobs).unit
    <3>1. /\ running = G!Nobody /\ UNCHANGED <<gpc, running>> /\ jobs' = Tail(jobs)
          /\ Head(jobs).kind # "task" /\ gpc \in {"drain", "jobs"}
          /\ running.kind # "main"
      BY <2>5 DEF G!ReportJob, G!Nobody, G!Thread
    <3>2. ~dead
      BY <3>1 DEF PlaceInv
    <3>3. Head(jobs) \in Mine /\ (jobs \in Seq(Mine) => Tail(jobs) \in Seq(Mine))
      BY <2>2, <2>5, <3>2 DEF OwnInv
    <3>4. u = call
      BY <2>5, <3>1, <3>3 DEF Mine
    <3>5. ~dead' => jobs' \in Seq(Mine')
      BY <2>2, <3>1, <3>3, MineKept
    <3> QED
      BY <2>2, <2>3, <3>1, <3>4, <3>5 DEF ReportsFor, OwnInv, OwnReport
  <2>6. CASE G!SettleThrows /\ u = call
    <3>1. UNCHANGED <<running, jobs>> /\ gpc # "jobs" /\ running = G!Nobody
      BY <2>6 DEF G!SettleThrows, PlaceInv
    <3>2. running'.kind # "main"
      BY <3>1 DEF G!Nobody, G!Thread
    <3>3. ~dead' => jobs' \in Seq(Mine')
      BY <2>2, <3>1, MineKept
    <3> QED
      BY <2>2, <2>3, <2>6, <3>2, <3>3 DEF ReportsFor, OwnInv, OwnReport
  <2> QED
    BY <2>3, <2>4, <2>5, <2>6 DEF G!ReportJob
<1>3. CASE Polls \/ Outside \/ UNCHANGED ivars
  <2>1. ~dead' => jobs' \in Seq(Mine')
    BY <1>3, OutsideKeeps, MineKept
  <2> QED
    BY <1>3, <2>1, OutsideKeeps DEF OwnInv, OwnReport
<1> QED
  BY <1>1, <1>2, <1>3

LEMMA OwnStep ==
  ASSUME TypeOK, IInv, G!GuestTypeOK, ReportsTypeOK, MapInv, GuestInv, OwnInv,
         [InstanceNext]_ivars
  PROVE  OwnInv'
<1>1. RPCPlaces /\ PlaceInv /\ AwaitInv
  BY DEF IInv, GuestInv
<1> QED
  BY <1>1, OwnBoundary, OwnRuntime, OwnScript, OwnImports DEF InstanceNext

\* Unless scripts of different calls share a promise, the result or error a call returns
\* is that of its own script: late answers, drained jobs, interrupts, cancellations and
\* traps of any number of calls never cross two results.
THEOREM UnsharedReportHolds == InstanceSpec => []UnsharedReport
<1>1. InstanceInit => ReportsTypeOK
  BY DEF InstanceInit, ReportsTypeOK, Calls, NoCall
<1>2. OwnInv => UnsharedReport
  BY DEF OwnInv, UnsharedReport
<1> QED
  BY <1>1, <1>2, InstanceInductive, ReportsTypeStep, OwnInit, OwnStep, PTL DEF InstanceSpec
=============================================================================
