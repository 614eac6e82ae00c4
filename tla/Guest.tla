-------------------------------- MODULE Guest --------------------------------
(***************************************************************************)
(* The guest side of one instance: the Rust exports of kafig-runtime/src   *)
(* and the JS state behind them (prelude.js), over the QuickJS job queue.  *)
(* Each action is the guest's part of a step; Instance joins it with the   *)
(* host's part (Host).                                                     *)
(*                                                                         *)
(* A unit is the script or the event handler that a call runs, named by    *)
(* the call's number.  It is one main thread of JS, which runs until it    *)
(* awaits or ends, and at most one detached task (a microtask or an async  *)
(* function nobody awaits).  What the JS does is not known: it may issue   *)
(* RPCs, await them, end or throw wherever it runs, and an interrupt is a  *)
(* throw.  With Sharing, units may also wait for, and settle, one promise  *)
(* kept in a global (the gate), as state survives between calls.           *)
(***************************************************************************)
EXTENDS Integers, SequencesExt

CONSTANTS PromiseIds, MaxCalls, Sharing

VARIABLES
  gpc,           \* "out", or where the running export is, see Places
  arg,           \* the promise id that resolve_rpc or reject_rpc was given
  running,       \* the JS that runs: a thread of a unit, or Nobody
  jobs,          \* the QuickJS job queue
  await,         \* what the main thread of each unit waits for
  pendingRpcs,   \* the prelude's map: RPC promises not settled
  settled,       \* RPC promises settled
  issuer,        \* the unit whose JS made the RPC promise
  spawned,       \* units that have started their task
  gateOpen,      \* the shared promise is settled
  usedRpcCalls,  \* USED_RPC_CALLS
  resetCut,      \* history: the last __reset was interrupted
  dead           \* a trap left the QuickJS context locked: every export traps

gvars == <<gpc, arg, running, jobs, await, pendingRpcs, settled, issuer,
           spawned, gateOpen, usedRpcCalls, resetCut, dead>>

Units == 0..MaxCalls
NoUnit == -1
Nothing == "nothing"
Gate == "gate"

(***************************************************************************)
(* An export begins at "enter" (eval, eval_compiled, dispatch_event) or    *)
(* "settle" (resolve_rpc, reject_rpc); discard_stale_state drains at       *)
(* "drain"; the unit's script runs at "script", the job loop at "jobs";    *)
(* "ret" is the end, and "out" no export at all.                           *)
(***************************************************************************)
Places == {"out", "enter", "drain", "script", "settle", "jobs", "ret"}

Thread(kind, u) == [kind |-> kind, unit |-> u]
Nobody == Thread("nobody", NoUnit)
Job(kind, u) == [kind |-> kind, unit |-> u]
Jobs == [kind : {"main", "task", "fulfilled", "rejected"}, unit : Units]

GuestTypeOK ==
  /\ gpc \in Places
  /\ arg \in PromiseIds \cup {Nothing}
  /\ running \in {Nobody} \cup [kind : {"main", "task"}, unit : Units]
  /\ jobs \in Seq(Jobs)
  /\ await \in [Units -> PromiseIds \cup {Gate, Nothing}]
  /\ pendingRpcs \subseteq PromiseIds /\ settled \subseteq PromiseIds
  /\ issuer \in [PromiseIds -> Units \cup {NoUnit}]
  /\ spawned \subseteq Units
  /\ gateOpen \in BOOLEAN /\ usedRpcCalls \in BOOLEAN
  /\ resetCut \in BOOLEAN /\ dead \in BOOLEAN

\* The snapshot wizer took; the prelude of the instance, if any, is about to run.
GuestInit(prelude) ==
  /\ gpc = IF prelude THEN "enter" ELSE "out"
  /\ arg = Nothing
  /\ running = Nobody
  /\ jobs = << >>
  /\ await = [u \in Units |-> Nothing]
  /\ pendingRpcs = {} /\ settled = {}
  /\ issuer = [id \in PromiseIds |-> NoUnit]
  /\ spawned = {}
  /\ gateOpen = FALSE /\ usedRpcCalls = FALSE /\ resetCut = FALSE /\ dead = FALSE

-----------------------------------------------------------------------------
(* The exports. *)

Enter ==
  /\ gpc = "out"
  /\ gpc' = "enter"
  /\ UNCHANGED <<arg, running, jobs, await, pendingRpcs, settled, issuer,
                 spawned, gateOpen, usedRpcCalls, resetCut, dead>>

EnterSettle(id) ==
  /\ gpc = "out"
  /\ gpc' = "settle"
  /\ arg' = id
  /\ UNCHANGED <<running, jobs, await, pendingRpcs, settled, issuer,
                 spawned, gateOpen, usedRpcCalls, resetCut, dead>>

\* A variant the runs must reject: every entry takes the fast path.
skipDrain(u) ==
  /\ gpc = "enter" /\ ~dead
  /\ gpc' = "script" /\ running' = Thread("main", u)
  /\ UNCHANGED <<arg, jobs, await, pendingRpcs, settled, issuer, spawned,
                 gateOpen, usedRpcCalls, resetCut, dead>>

\* discard_stale_state: the fast path, or the start of the drain.
DiscardStale(u) ==
  /\ gpc = "enter" /\ ~dead
  /\ usedRpcCalls' = FALSE
  /\ IF usedRpcCalls
     THEN gpc' = "drain" /\ UNCHANGED running
     ELSE gpc' = "script" /\ running' = Thread("main", u)
  /\ UNCHANGED <<arg, jobs, await, pendingRpcs, settled, issuer, spawned,
                 gateOpen, resetCut, dead>>

\* The drain is over: __reset clears the map, and the script of unit u starts.  The
\* call of __reset polls like any other, and its failure is ignored: an interrupt
\* there leaves the map as it was (see Tracking).
DrainDone(u) ==
  /\ gpc = "drain" /\ running = Nobody /\ jobs = << >>
  /\ \/ pendingRpcs' = {} /\ resetCut' = FALSE
     \/ UNCHANGED pendingRpcs /\ resetCut' = TRUE
  /\ gpc' = "script" /\ running' = Thread("main", u)
  /\ UNCHANGED <<arg, jobs, await, settled, issuer, spawned, gateOpen,
                 usedRpcCalls, dead>>

\* execute_pending_job with JS in it.  While draining, the interrupt handler
\* throws if it is polled, every 10000 opcodes: a job may end before that.
RunJob ==
  /\ gpc \in {"drain", "jobs"} /\ running = Nobody
  /\ jobs # << >> /\ Head(jobs).kind \in {"main", "task"}
  /\ running' = Thread(Head(jobs).kind, Head(jobs).unit)
  /\ jobs' = Tail(jobs)
  /\ UNCHANGED <<gpc, arg, await, pendingRpcs, settled, issuer, spawned,
                 gateOpen, usedRpcCalls, resetCut, dead>>

\* execute_pending_job with promise_resolve_cb or promise_reject_cb: a report.
ReportJob(isError) ==
  /\ gpc \in {"drain", "jobs"} /\ running = Nobody
  /\ jobs # << >> /\ Head(jobs).kind = (IF isError THEN "rejected" ELSE "fulfilled")
  /\ jobs' = Tail(jobs)
  /\ UNCHANGED <<gpc, arg, running, await, pendingRpcs, settled, issuer,
                 spawned, gateOpen, usedRpcCalls, resetCut, dead>>

JobsDone ==
  /\ gpc = "jobs" /\ running = Nobody /\ jobs = << >>
  /\ gpc' = "ret"
  /\ UNCHANGED <<arg, running, jobs, await, pendingRpcs, settled, issuer,
                 spawned, gateOpen, usedRpcCalls, resetCut, dead>>

\* __resolve_rpc or __reject_rpc, then the job loop.  A promise of the map is
\* settled, which makes the thread that awaits it ready; an id that is not in the
\* map is ignored.
wake(id) == SetToSeq({Job("main", u) : u \in {w \in Units : await[w] = id}})

\* Variants the runs must reject: the job loop is not run, or the entry stays in
\* the map.
settleWithoutJobs ==
  /\ gpc = "settle" /\ ~dead
  /\ gpc' = "ret" /\ arg' = Nothing
  /\ pendingRpcs' = pendingRpcs \ {arg}
  /\ settled' = settled \cup ({arg} \cap pendingRpcs)
  /\ jobs' = jobs \o (IF arg \in pendingRpcs THEN wake(arg) ELSE << >>)
  /\ await' = [u \in Units |-> IF arg \in pendingRpcs /\ await[u] = arg THEN Nothing
                                                                        ELSE await[u]]
  /\ UNCHANGED <<running, issuer, spawned, gateOpen, usedRpcCalls, resetCut, dead>>

settleKeeping ==
  /\ gpc = "settle" /\ ~dead
  /\ gpc' = "jobs" /\ arg' = Nothing
  /\ settled' = settled \cup ({arg} \cap pendingRpcs)
  /\ jobs' = jobs \o (IF arg \in pendingRpcs THEN wake(arg) ELSE << >>)
  /\ await' = [u \in Units |-> IF arg \in pendingRpcs /\ await[u] = arg THEN Nothing
                                                                        ELSE await[u]]
  /\ UNCHANGED <<running, pendingRpcs, issuer, spawned, gateOpen,
                 usedRpcCalls, resetCut, dead>>

SettleRPC ==
  /\ gpc = "settle" /\ ~dead
  /\ gpc' = "jobs" /\ arg' = Nothing
  /\ pendingRpcs' = pendingRpcs \ {arg}
  /\ settled' = settled \cup ({arg} \cap pendingRpcs)
  /\ jobs' = jobs \o (IF arg \in pendingRpcs THEN wake(arg) ELSE << >>)
  /\ await' = [u \in Units |-> IF arg \in pendingRpcs /\ await[u] = arg THEN Nothing
                                                                        ELSE await[u]]
  /\ UNCHANGED <<running, issuer, spawned, gateOpen, usedRpcCalls, resetCut, dead>>

\* The settlement function was interrupted, before or after it removed the entry:
\* the error is reported and the job loop is not reached.
SettleThrows ==
  /\ gpc = "settle" /\ ~dead
  /\ gpc' = "ret" /\ arg' = Nothing
  /\ pendingRpcs' \in {pendingRpcs, pendingRpcs \ {arg}}
  /\ UNCHANGED <<running, jobs, await, settled, issuer, spawned, gateOpen,
                 usedRpcCalls, resetCut, dead>>

Leave ==
  /\ gpc = "ret"
  /\ gpc' = "out"
  /\ UNCHANGED <<arg, running, jobs, await, pendingRpcs, settled, issuer,
                 spawned, gateOpen, usedRpcCalls, resetCut, dead>>

\* The export fails: before it began (alloc returned null, the module is closed),
\* or by a trap inside it.
Fail ==
  /\ gpc # "out"
  /\ gpc' = "out" /\ arg' = Nothing /\ running' = Nobody
  /\ dead' = (dead \/ gpc \notin {"enter", "settle"})
  /\ UNCHANGED <<jobs, await, pendingRpcs, settled, issuer, spawned,
                 gateOpen, usedRpcCalls, resetCut>>

-----------------------------------------------------------------------------
(* The JS of the running thread. *)

Main == running.kind = "main"
Me == running.unit

\* host.rpc(...): makeRpcPromise and __host_rpc_native.
JsRPC(id) ==
  /\ running # Nobody
  /\ issuer[id] = NoUnit
  /\ issuer' = [issuer EXCEPT ![id] = Me]
  /\ pendingRpcs' = pendingRpcs \cup {id}
  /\ usedRpcCalls' = TRUE
  /\ UNCHANGED <<gpc, arg, running, jobs, await, settled, spawned, gateOpen, resetCut,
                 dead>>

\* host.rpc(...) with parameters JSON.stringify or the native function refuses: the
\* entry is in the map already, the promise is rejected, and the host and
\* USED_RPC_CALLS hear nothing of it.
JsRPCThrows(id) ==
  /\ running # Nobody
  /\ issuer[id] = NoUnit
  /\ issuer' = [issuer EXCEPT ![id] = Me]
  /\ pendingRpcs' = pendingRpcs \cup {id}
  /\ settled' = settled \cup {id}
  /\ UNCHANGED <<gpc, arg, running, jobs, await, spawned, gateOpen, usedRpcCalls,
                 resetCut, dead>>

\* The unit leaves a microtask behind.
JsSpawn ==
  /\ Main /\ Me \notin spawned
  /\ spawned' = spawned \cup {Me}
  /\ jobs' = Append(jobs, Job("task", Me))
  /\ UNCHANGED <<gpc, arg, running, await, pendingRpcs, settled, issuer,
                 gateOpen, usedRpcCalls, resetCut, dead>>

\* The script of an async call awaits: process_eval_result has attached the
\* callbacks to its promise, and the job loop begins.
Suspends ==
  /\ Main
  /\ running' = Nobody
  /\ gpc' = IF gpc = "script" THEN "jobs" ELSE gpc

\* await of an RPC promise of the unit, or of the shared promise.
JsAwait(p) ==
  /\ p = Gate \/ (p \in PromiseIds /\ issuer[p] = Me)
  /\ p = Gate => Sharing
  /\ Suspends
  /\ LET isSettled == IF p = Gate THEN gateOpen ELSE p \in settled IN
       /\ jobs' = IF isSettled THEN Append(jobs, Job("main", Me)) ELSE jobs
       /\ await' = [await EXCEPT ![Me] = IF isSettled THEN Nothing ELSE p]
  /\ UNCHANGED <<arg, pendingRpcs, settled, issuer, spawned, gateOpen, usedRpcCalls,
                 resetCut, dead>>

JsOpenGate ==
  /\ running # Nobody /\ Sharing /\ ~gateOpen
  /\ gateOpen' = TRUE
  /\ jobs' = jobs \o wake(Gate)
  /\ await' = [u \in Units |-> IF await[u] = Gate THEN Nothing ELSE await[u]]
  /\ UNCHANGED <<gpc, arg, running, pendingRpcs, settled, issuer, spawned,
                 usedRpcCalls, resetCut, dead>>

\* The script ends or throws and process_eval_result, or the exception path,
\* reports at once: a sync call, an event handler that returned no promise, a
\* throw before the first await.  eval_compiled then skips the job loop.
JsEndDirect(isError, async) ==
  /\ Main /\ gpc = "script"
  /\ running' = Nobody
  /\ \/ async /\ gpc' = "jobs"
     \/ (~async \/ isError) /\ gpc' = "ret"
  /\ UNCHANGED <<arg, jobs, await, pendingRpcs, settled, issuer, spawned,
                 gateOpen, usedRpcCalls, resetCut, dead>>

\* The main thread of an async unit ends: its promise settles and the callback
\* that reports is queued.
JsEnd(isError) ==
  /\ Suspends
  /\ jobs' = Append(jobs, Job(IF isError THEN "rejected" ELSE "fulfilled", Me))
  /\ UNCHANGED <<arg, await, pendingRpcs, settled, issuer, spawned, gateOpen,
                 usedRpcCalls, resetCut, dead>>

\* A task ends or throws.
JsTaskEnd ==
  /\ running.kind = "task"
  /\ running' = Nobody
  /\ UNCHANGED <<gpc, arg, jobs, await, pendingRpcs, settled, issuer, spawned,
                 gateOpen, usedRpcCalls, resetCut, dead>>
=============================================================================
