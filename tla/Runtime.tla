------------------------------ MODULE Runtime ------------------------------
(***************************************************************************)
(* The life of a Runtime (runtime.go) and of the guests in it: what New,   *)
(* Instance, Compile and Close open and close, over every exit of each.    *)
(* Bytes go to the guests as in Memory: the prelude of an instance and the *)
(* source of a compilation are calls of it.                                *)
(*                                                                         *)
(* One goroutine makes all the calls.  Failures that come before anything  *)
(* was opened (an Instance without a router, a guest that cannot be        *)
(* instantiated, a call on a closed instance) change nothing and are no    *)
(* steps here.                                                             *)
(***************************************************************************)
EXTENDS Memory

CONSTANT Compiler   \* the guest in compileBytecode's temporary runtime

ASSUME RuntimeAssumption == Compiler \in Guests

VARIABLES
  pc,        \* where the calling goroutine is, see Stages
  wazero,    \* wazeroRuntime: "none", "open" or "closed"
  compiled,  \* the guest module has been compiled
  cache,     \* the compilation cache: "none", "open" or "closed"
  ownCache,  \* ownCache: New made the cache
  prelude,   \* WithPrelude was given
  temp,      \* compileBytecode: "none", "open", or "called" with its source
  handles    \* the instances the caller holds and has not closed

lifecycle == <<pc, wazero, compiled, cache, ownCache, prelude, temp, handles>>
rvars == <<mvars, lifecycle>>

(***************************************************************************)
(* "none"; in New: "env", "module", "prelude"; "ready": the caller's turn; *)
(* "compile": in Compile; in Instance: "setup" and "evaluate"; "failed":   *)
(* New returned an error; "closed".                                        *)
(***************************************************************************)
Stages == {"none", "env", "module", "prelude", "ready", "compile", "setup",
           "evaluate", "failed", "closed"}

RuntimeTypeOK ==
  /\ MemoryTypeOK
  /\ pc \in Stages
  /\ wazero \in {"none", "open", "closed"} /\ cache \in {"none", "open", "closed"}
  /\ compiled \in BOOLEAN /\ ownCache \in BOOLEAN /\ prelude \in BOOLEAN
  /\ temp \in {"none", "open", "called"}
  /\ handles \subseteq Guests

RuntimeInit ==
  /\ MemoryInit
  /\ pc = "none" /\ wazero = "none" /\ cache = "none" /\ temp = "none"
  /\ compiled = FALSE /\ ownCache \in BOOLEAN /\ prelude \in BOOLEAN
  /\ handles = {}

-----------------------------------------------------------------------------
(* New. *)

\* The cache, given or made, and wazero's runtime with WASI.
New ==
  /\ pc = "none"
  /\ pc' = "env" /\ wazero' = "open" /\ cache' = "open"
  /\ UNCHANGED <<mvars, compiled, ownCache, prelude, temp, handles>>

\* The host functions are registered.
RegisterHost ==
  /\ pc = "env" /\ pc' = "module"
  /\ UNCHANGED <<mvars, wazero, compiled, cache, ownCache, prelude, temp, handles>>

CompileModule ==
  /\ pc = "module"
  /\ compiled' = TRUE
  /\ pc' = IF prelude THEN "prelude" ELSE "ready"
  /\ UNCHANGED <<mvars, wazero, cache, ownCache, prelude, temp, handles>>

\* New returns before the guest is compiled: wazero's runtime is closed, a cache of
\* its own is not.
NewFailsEarly ==
  /\ pc \in {"env", "module"}
  /\ pc' = "failed" /\ wazero' = "closed"
  /\ UNCHANGED <<mvars, compiled, cache, ownCache, prelude, temp, handles>>

ClosedIfOwn == IF ownCache THEN "closed" ELSE cache

-----------------------------------------------------------------------------
(* compileBytecode, for New and for Compile. *)

Compile ==
  /\ pc = "ready" /\ at = "out" /\ pc' = "compile"
  /\ UNCHANGED <<mvars, wazero, compiled, cache, ownCache, prelude, temp, handles>>

OpenTemp ==
  /\ pc \in {"prelude", "compile"} /\ temp = "none"
  /\ temp' = "open" /\ Open(Compiler)
  /\ UNCHANGED <<pc, wazero, compiled, cache, ownCache, prelude, handles>>

CompileSource(len) ==
  /\ temp = "open" /\ temp' = "called"
  /\ BeginCall("compile", Compiler, <<len>>)
  /\ UNCHANGED <<pc, wazero, compiled, cache, ownCache, prelude, handles>>

\* compileBytecode has returned, with bytecode or not: the temporary runtime is
\* closed by a defer; New goes on, or closes all it made.
AfterCompile(ok) ==
  /\ pc' = IF pc = "prelude" /\ ~ok THEN "failed" ELSE "ready"
  /\ wazero' = IF pc' = "failed" THEN "closed" ELSE wazero
  /\ cache' = IF pc' = "failed" THEN ClosedIfOwn ELSE cache
  /\ UNCHANGED <<compiled, ownCache, prelude, handles>>

\* The temporary runtime could not be set up.
TempFails ==
  /\ pc \in {"prelude", "compile"} /\ temp # "called"
  /\ temp' = "none" /\ Close({Compiler} \cap open)
  /\ AfterCompile(FALSE)

TempDone ==
  /\ temp = "called" /\ at = "out"
  /\ temp' = "none" /\ Close({Compiler} \cap open)
  /\ AfterCompile(result = "ok")

-----------------------------------------------------------------------------
(* Instance. *)

Instantiate(g) ==
  /\ pc = "ready" /\ g # Compiler /\ g \notin handles
  /\ Open(g)
  /\ pc' = "setup"
  /\ UNCHANGED <<wazero, compiled, cache, ownCache, prelude, temp, handles>>

\* The guest that is being set up, unless its context closed it.
Fresh == open \ handles

\* The exports are there, the memory limit is set: the prelude is evaluated.
EvalPrelude(len) ==
  /\ pc = "setup" /\ prelude /\ len > 0 /\ pc' = "evaluate"
  /\ \E g \in Fresh : BeginCall("eval", g, <<len>>)
  /\ UNCHANGED <<wazero, compiled, cache, ownCache, prelude, temp, handles>>

InstanceReady ==
  /\ \/ pc = "setup" /\ ~prelude
     \/ pc = "evaluate" /\ at = "out" /\ result = "ok"
  /\ pc' = "ready" /\ handles' = handles \cup Fresh
  /\ UNCHANGED <<mvars, wazero, compiled, cache, ownCache, prelude, temp>>

\* A variant the runs must reject: the error is returned and the module forgotten.
setUpFailsOpen ==
  /\ pc \in {"setup", "evaluate"} /\ at = "out"
  /\ pc' = "ready"
  /\ UNCHANGED <<mvars, wazero, compiled, cache, ownCache, prelude, temp, handles>>

\* A missing export, no memory limit set, no memory for the prelude, a trap in it, or
\* an error of its script: the module is closed.
SetUpFails ==
  /\ pc \in {"setup", "evaluate"} /\ at = "out"
  /\ pc' = "ready" /\ Close(Fresh)
  /\ UNCHANGED <<wazero, compiled, cache, ownCache, prelude, temp, handles>>

-----------------------------------------------------------------------------
(* The caller, with instances in hand. *)

CallInstance(k, g, lens) ==
  /\ pc = "ready" /\ k # "compile" /\ g \in handles
  /\ BeginCall(k, g, lens)
  /\ UNCHANGED lifecycle

CallGoesOn == CallStep /\ UNCHANGED lifecycle

CloseInstance(g) ==
  /\ pc = "ready" /\ g \in handles
  /\ handles' = handles \ {g} /\ Close({g} \cap open)
  /\ UNCHANGED <<pc, wazero, compiled, cache, ownCache, prelude, temp>>

\* A variant the runs must reject: any cache is closed.
closeAnyCache ==
  /\ pc = "ready" /\ pc' = "closed"
  /\ wazero' = "closed" /\ handles' = {} /\ Close(open)
  /\ cache' = "closed"
  /\ UNCHANGED <<compiled, ownCache, prelude, temp>>

\* Close closes all remaining instances with wazero's runtime.
CloseRuntime ==
  /\ pc = "ready" /\ pc' = "closed"
  /\ wazero' = "closed" /\ handles' = {} /\ Close(open)
  /\ cache' = ClosedIfOwn
  /\ UNCHANGED <<compiled, ownCache, prelude, temp>>

RuntimeNext ==
  \/ New \/ RegisterHost \/ CompileModule \/ NewFailsEarly
  \/ Compile \/ OpenTemp \/ TempFails \/ TempDone
  \/ \E len \in 0..MaxLen : CompileSource(len) \/ EvalPrelude(len)
  \/ \E g \in Guests : Instantiate(g) \/ CloseInstance(g)
  \/ InstanceReady \/ SetUpFails
  \/ \E k \in Kinds, g \in Guests : \E lens \in Lens(k) : CallInstance(k, g, lens)
  \/ CallGoesOn \/ CloseRuntime

RuntimeSpec == RuntimeInit /\ [][RuntimeNext]_rvars
-----------------------------------------------------------------------------
(* Properties. *)

\* What New, Compile or Instance opened and did not hand over is closed again, on every
\* exit: at the caller's turn the open guests are instances the caller holds, and after a
\* New that failed, or a Close, none is open.
OnlyHandlesOpen ==
  /\ pc = "ready" => open \subseteq handles
  /\ pc \in {"failed", "closed"} => open = {} /\ wazero = "closed"

\* The cache is open while a runtime may use it; a cache the caller gave is never closed
\* by the Runtime, and New's own is closed when New fails, but for its two exits before
\* the guest is compiled, which leave it.
CacheIsOwners ==
  /\ wazero = "open" => cache = "open"
  /\ ~ownCache => cache # "closed"
  /\ (pc = "failed" /\ compiled /\ ownCache) => cache = "closed"
=============================================================================
