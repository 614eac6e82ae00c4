---------------------------- MODULE RuntimeProofs ----------------------------
(***************************************************************************)
(* Proofs about Runtime for every set of guests and addresses.  A runtime  *)
(* is one user of Memory (RuntimeUsesMemory), so what MemoryProofs shows   *)
(* of every user holds of it; Lifecycle is the invariant behind what the   *)
(* exits of New, Compile and Instance close.                               *)
(***************************************************************************)
EXTENDS Runtime, MemoryProofs

-----------------------------------------------------------------------------
(* The runtime uses Memory. *)

LEMMA OneLength ==
  ASSUME NEW len \in 0..MaxLen
  PROVE  <<len>> \in Lens("eval") /\ <<len>> \in Lens("compile")
<1>1. <<len>> \in [1..1 -> 0..MaxLen]
  OBVIOUS
<1> QED
  BY <1>1 DEF Lens

LEMMA StepIsMemoryStep ==
  ASSUME MemoryTypeOK, [RuntimeNext]_rvars
  PROVE  [MemoryNext]_mvars
<1>0. Fresh \in SUBSET Guests /\ open \in SUBSET Guests /\ Compiler \in Guests
  BY RuntimeAssumption DEF RuntimeAssumption, MemoryTypeOK, Fresh
<1>1. CASE New \/ RegisterHost \/ CompileModule \/ NewFailsEarly \/ Compile \/ InstanceReady
  BY <1>1 DEF New, RegisterHost, CompileModule, NewFailsEarly, Compile, InstanceReady
<1>2. CASE OpenTemp \/ \E g \in Guests : Instantiate(g)
  BY <1>0, <1>2 DEF OpenTemp, Instantiate, MemoryNext
<1>3. CASE TempFails \/ TempDone \/ SetUpFails \/ CloseRuntime
  <2>1. \E gs \in SUBSET Guests : Close(gs)
    BY <1>0, <1>3 DEF TempFails, TempDone, SetUpFails, CloseRuntime
  <2> QED
    BY <2>1 DEF MemoryNext
<1>4. ASSUME NEW g \in Guests, CloseInstance(g) PROVE MemoryNext
  <2>1. {g} \cap open \in SUBSET Guests
    BY <1>0
  <2> QED
    BY <1>4, <2>1 DEF CloseInstance, MemoryNext
<1>5. ASSUME NEW len \in 0..MaxLen, CompileSource(len) PROVE MemoryNext
  <2>1. <<len>> \in Lens("compile") /\ "compile" \in Kinds
    BY OneLength DEF Kinds
  <2> QED
    BY <1>0, <1>5, <2>1 DEF CompileSource, MemoryNext
<1>6. ASSUME NEW len \in 0..MaxLen, EvalPrelude(len) PROVE MemoryNext
  <2>1. <<len>> \in Lens("eval") /\ "eval" \in Kinds
    BY OneLength DEF Kinds
  <2>2. PICK g \in Fresh : BeginCall("eval", g, <<len>>)
    BY <1>6 DEF EvalPrelude
  <2> QED
    BY <1>0, <2>1, <2>2 DEF MemoryNext
<1>7. CASE \E k \in Kinds, g \in Guests : \E lens \in Lens(k) : CallInstance(k, g, lens)
  BY <1>7 DEF CallInstance, MemoryNext
<1>8. CASE CallGoesOn
  BY <1>8 DEF CallGoesOn, MemoryNext
<1>9. CASE UNCHANGED rvars
  BY <1>9 DEF rvars
<1> QED
  BY <1>1, <1>2, <1>3, <1>4, <1>5, <1>6, <1>7, <1>8, <1>9 DEF RuntimeNext

LEMMA RuntimeMemoryInv == RuntimeSpec => []MemoryInv
<1>1. RuntimeInit => MemoryInv
  BY MInit DEF RuntimeInit
<1>2. MemoryInv /\ [RuntimeNext]_rvars => MemoryInv'
  BY StepIsMemoryStep, MemoryNextKeeps DEF MemoryInv
<1> QED
  BY <1>1, <1>2, PTL DEF RuntimeSpec

\* A runtime, its compiler and its instances pass bytes as Memory says: each step of
\* theirs is a step of Memory or leaves every heap alone.
THEOREM RuntimeUsesMemory == RuntimeSpec => MemorySpec
<1>1. RuntimeInit => MemoryInit
  BY DEF RuntimeInit
<1>2. MemoryInv /\ [RuntimeNext]_rvars => [MemoryNext]_mvars
  BY StepIsMemoryStep DEF MemoryInv
<1> QED
  BY <1>1, <1>2, RuntimeMemoryInv, PTL DEF RuntimeSpec, MemorySpec

\* In the life of a runtime no dealloc is undefined, on any exit of any call.
THEOREM RuntimeNoFault == RuntimeSpec => []NoFault
  BY RuntimeUsesMemory, NoFaultHolds, PTL

\* In the life of a runtime no call leaves a buffer behind, but for what traps took.
THEOREM RuntimeNothingLeft == RuntimeSpec => []NothingLeft
  BY RuntimeUsesMemory, NothingLeftHolds, PTL

-----------------------------------------------------------------------------
(* The life of the guests. *)

InNew == {"none", "env", "module", "prelude"}
InInstance == {"setup", "evaluate"}

\* The compiler's guest is open only within compileBytecode, another guest that nobody
\* holds only within Instance.
GuestsOf ==
  /\ handles \subseteq Guests \ {Compiler}
  /\ Compiler \in open => temp # "none"
  /\ temp # "none" => pc \in {"prelude", "compile"}
  /\ pc \notin InInstance => open \subseteq handles \cup {Compiler}
  /\ pc \in InNew \cup {"failed", "closed"} => handles = {}

StageOf ==
  /\ pc \in {"failed", "closed"} => wazero = "closed"
  /\ pc \in {"none", "env", "module"} => ~compiled
  /\ CacheIsOwners

Lifecycle == RuntimeTypeOK /\ GuestsOf /\ StageOf

LEMMA LInit == RuntimeInit => Lifecycle
<1> SUFFICES ASSUME RuntimeInit PROVE Lifecycle
  OBVIOUS
<1>1. MemoryTypeOK /\ open = {}
  BY MInit DEF RuntimeInit, MemoryInv, MemoryInit
<1> QED
  BY <1>1
     DEF RuntimeInit, Lifecycle, RuntimeTypeOK, GuestsOf, StageOf, CacheIsOwners, Stages,
         InInstance

\* A call in progress opens no guest.
LEMMA CallStepOpens ==
  ASSUME CallStep
  PROVE  open' \subseteq open
  BY DEF CallStep, AllocNext, AllocFails, SyncRPC, SyncFails, GuestTakes, SyncAnswers,
     CompileReturns, ExportReturns, Trap, CutOff, Closed, CallEnds

LEMMA CloseOpens ==
  ASSUME NEW gs, Close(gs)
  PROVE  open' = open \ gs
  BY DEF Close, Closed

LEMMA LNext == Lifecycle /\ MemoryTypeOK' /\ [RuntimeNext]_rvars => Lifecycle'
<1> SUFFICES ASSUME Lifecycle, MemoryTypeOK', [RuntimeNext]_rvars
             PROVE  Lifecycle'
  OBVIOUS
<1> USE DEF Lifecycle, RuntimeTypeOK, GuestsOf, StageOf, CacheIsOwners, Stages, InNew,
            InInstance
<1>1. CASE New \/ RegisterHost \/ CompileModule \/ NewFailsEarly \/ Compile
  <2>1. UNCHANGED <<open, handles, temp, ownCache>>
    BY <1>1 DEF New, RegisterHost, CompileModule, NewFailsEarly, Compile, mvars
  <2>2. CASE New
    BY <2>1, <2>2 DEF New
  <2>3. CASE RegisterHost
    BY <2>1, <2>3 DEF RegisterHost
  <2>4. CASE CompileModule
    BY <2>1, <2>4 DEF CompileModule
  <2>5. CASE NewFailsEarly
    BY <2>1, <2>5 DEF NewFailsEarly
  <2>6. CASE Compile
    BY <2>1, <2>6 DEF Compile
  <2> QED
    BY <1>1, <2>2, <2>3, <2>4, <2>5, <2>6
<1>2. CASE OpenTemp
  <2>1. open' = open \cup {Compiler} /\ temp' = "open"
    BY <1>2 DEF OpenTemp, Open
  <2> QED
    BY <1>2, <2>1 DEF OpenTemp
<1>3. ASSUME NEW ok \in BOOLEAN, AfterCompile(ok), temp' = "none",
             pc \in {"prelude", "compile"}, open' = open \ ({Compiler} \cap open)
      PROVE  Lifecycle'
  <2>1. open' \subseteq handles /\ UNCHANGED <<handles, compiled, ownCache>>
    BY <1>3 DEF AfterCompile
  <2>2. CASE pc = "prelude" /\ ~ok
    BY <1>3, <2>1, <2>2 DEF AfterCompile, ClosedIfOwn
  <2>3. CASE ~(pc = "prelude" /\ ~ok)
    BY <1>3, <2>1, <2>3 DEF AfterCompile
  <2> QED
    BY <2>2, <2>3
<1>4. CASE TempFails
  BY <1>3, <1>4, CloseOpens DEF TempFails
<1>5. CASE TempDone
  <2>1. (result = "ok") \in BOOLEAN /\ pc \in {"prelude", "compile"}
    BY <1>5 DEF TempDone
  <2> QED
    BY <1>3, <1>5, <2>1, CloseOpens DEF TempDone
<1>6. ASSUME NEW len \in 0..MaxLen, CompileSource(len) PROVE Lifecycle'
  <2>1. open' = open
    BY <1>6 DEF CompileSource, BeginCall
  <2> QED
    BY <1>6, <2>1 DEF CompileSource
<1>7. ASSUME NEW len \in 0..MaxLen, EvalPrelude(len) PROVE Lifecycle'
  <2>1. open' = open
    BY <1>7 DEF EvalPrelude, BeginCall
  <2> QED
    BY <1>7, <2>1 DEF EvalPrelude
<1>8. ASSUME NEW g \in Guests, Instantiate(g) PROVE Lifecycle'
  <2>1. open' = open \cup {g} /\ g # Compiler
    BY <1>8 DEF Instantiate, Open
  <2> QED
    BY <1>8, <2>1 DEF Instantiate
<1>9. CASE InstanceReady
  <2>1. open' = open /\ pc \in InInstance /\ open \subseteq Guests
    BY <1>9 DEF InstanceReady, mvars, MemoryTypeOK
  <2>2. Compiler \notin open
    BY <2>1
  <2> QED
    BY <1>9, <2>1, <2>2 DEF InstanceReady, Fresh
<1>10. CASE SetUpFails
  <2>1. open' = open \ Fresh
    BY <1>10, CloseOpens DEF SetUpFails
  <2> QED
    BY <1>10, <2>1 DEF SetUpFails, Fresh
<1>11. ASSUME NEW g \in Guests, CloseInstance(g) PROVE Lifecycle'
  <2>1. open' = open \ ({g} \cap open)
    BY <1>11, CloseOpens DEF CloseInstance
  <2> QED
    BY <1>11, <2>1 DEF CloseInstance
<1>12. CASE CloseRuntime
  <2>1. open' = {}
    BY <1>12, CloseOpens DEF CloseRuntime
  <2> QED
    BY <1>12, <2>1 DEF CloseRuntime, ClosedIfOwn
<1>13. CASE \E k \in Kinds, g \in Guests : \E lens \in Lens(k) : CallInstance(k, g, lens)
  <2>1. UNCHANGED open /\ UNCHANGED lifecycle
    BY <1>13 DEF CallInstance, BeginCall
  <2> QED
    BY <2>1 DEF lifecycle
<1>14. CASE CallGoesOn
  <2>1. open' \subseteq open /\ UNCHANGED lifecycle
    BY <1>14, CallStepOpens DEF CallGoesOn
  <2> QED
    BY <2>1 DEF lifecycle
<1>15. CASE UNCHANGED rvars
  BY <1>15 DEF rvars, mvars, lifecycle
<1> QED
  BY <1>1, <1>2, <1>4, <1>5, <1>6, <1>7, <1>8, <1>9, <1>10, <1>11, <1>12, <1>13, <1>14,
     <1>15 DEF RuntimeNext

LEMMA RuntimeInductive == RuntimeSpec => []Lifecycle
<1>1. MemoryInv => MemoryTypeOK
  BY DEF MemoryInv
<1> QED
  BY <1>1, LInit, LNext, RuntimeMemoryInv, PTL DEF RuntimeSpec

\* The variables of the runtime and of the memory under it keep their types.
THEOREM RuntimeTypeCorrect == RuntimeSpec => []RuntimeTypeOK
<1>1. Lifecycle => RuntimeTypeOK
  BY DEF Lifecycle
<1> QED
  BY <1>1, RuntimeInductive, PTL

\* Every exit of New, Compile and Instance closes what it opened and does not hand over.
THEOREM OnlyHandlesOpenHolds == RuntimeSpec => []OnlyHandlesOpen
<1>1. Lifecycle => OnlyHandlesOpen
  BY DEF Lifecycle, GuestsOf, StageOf, OnlyHandlesOpen, InInstance, InNew
<1> QED
  BY <1>1, RuntimeInductive, PTL

\* A cache the caller gave is never closed, and one of its own is open while a runtime
\* uses it and closed when New fails after it compiled the guest.
THEOREM CacheIsOwnersHolds == RuntimeSpec => []CacheIsOwners
<1>1. Lifecycle => CacheIsOwners
  BY DEF Lifecycle, StageOf
<1> QED
  BY <1>1, RuntimeInductive, PTL
=============================================================================
