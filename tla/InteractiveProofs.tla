-------------------------- MODULE InteractiveProofs --------------------------
(***************************************************************************)
(* Proofs about the session of the CLI in all its modes, for every number  *)
(* of instances, polls and RPCs, and whatever is typed.                    *)
(*                                                                         *)
(* SessionInv, BudgetInv, ForwardInv and ScreenInv, one for each part of   *)
(* the state.  SessionInv says what is open at each step: OneInstance and  *)
(* ClosedAtReturn alone do not say that newSession still has nothing to    *)
(* close before its first reset, and FallbackWired needs that the fallback *)
(* is set where the next reset reads it.  BudgetInv extends BudgetIsOwn to *)
(* the step before the call, where the statistics are reset.  ForwardInv   *)
(* says that two Forwards that read have met, which is what a crossed      *)
(* answer takes.  ScreenInv follows an error through both classifiers and  *)
(* the printers.                                                           *)
(*                                                                         *)
(* ReadsBrackets compares a fold over a text with a recursive grammar, for *)
(* texts of any length.  The second half of the module proves it: first    *)
(* induction and recursion over the numbers up to a bound, then what the   *)
(* fold computes (ReadStates, ReadConcat), then that both functions of the *)
(* grammar satisfy their definitions (BodiesRecursion, BalancedRecursion), *)
(* and last, by induction on the length, that reading a text of the        *)
(* grammar leads back to where it began (BodyRead, BalancedRead).          *)
(***************************************************************************)
EXTENDS Interactive, FiniteSetTheorems, SequenceTheorems, WellFoundedInduction, TLAPS

Opened == {"wire", "ready", "begun", "running", "done"}

SessionInv ==
  /\ made \in Nat /\ inst \in 0..made
  /\ guests \subseteq {inst} \ {NoInstance}
  /\ step \in {"start", "reset"} => guests = {} /\ made = 0
  /\ step = "start" => rt = "none" /\ cache = "none"
  /\ step = "reset" => rt = "open"
  /\ step \in Opened =>
       /\ rt = "open" /\ made > 0
       /\ inst # NoInstance => guests = {inst}
       /\ mode # "file" => rpcFallback
  /\ (step \in Opened \ {"wire"} /\ mode # "file" /\ inst # NoInstance) => wired
  /\ ClosedAtReturn

BudgetInv ==
  /\ count \in Nat /\ ownPolls \in Nat
  /\ step \in {"begun", "running", "done"} =>
       /\ count = ownPolls
       /\ stopped => MaxOpcodes > 0 /\ ownPolls > MaxOpcodes

ForwardInv ==
  /\ nextID \in 0..MaxRPCs /\ reading \subseteq 1..nextID
  /\ DOMAIN answeredBy = 1..MaxRPCs
  /\ \A f \in (nextID + 1)..MaxRPCs : answeredBy[f] = 0
  /\ \A f, g \in reading : f # g => f \in together
  /\ CrossedOnlyTogether

-----------------------------------------------------------------------------
(* What a step can be, for each part of the state. *)

\* What every action that is no step of the session leaves alone.
SessionStays == UNCHANGED <<opening, step, instance, running>>

\* The steps of the session.
SessionActs ==
  \/ SessionGoesOn
  \/ Exec \/ ExecReset \/ ExecText \/ ExecExit
  \/ \E r \in CallResults : ExecEnds(r)

\* Outside of a multi-line text, Enter and executor decide alike, so that no step enters
\* one.
LEMMA NeverMultiLine == OneDecision /\ [InteractiveNext]_allvars => OneDecision'
<1> SUFFICES ASSUME OneDecision, [InteractiveNext]_allvars PROVE OneDecision'
  OBVIOUS
<1> USE DEF OneDecision
<1>1. CASE GoesOn \/ TakeCommand
  BY <1>1 DEF GoesOn, TakeCommand, input
<1>2. CASE \E piece \in Pieces : Type(piece)
  BY <1>2 DEF Type
<1>3. CASE NewLine
  BY <1>3 DEF NewLine
<1>4. CASE Execute
  <2>1. ~ExecutorGoesOn
    BY DEF ExecutorGoesOn
  <2>2. LET trimmed == TrimSpace(text)
        IN trimmed = << >> \/ IsDot(trimmed) \/ isComplete(trimmed)
    BY <1>4 DEF Execute, shouldExecute
  <2>3. QED
    BY <1>4, <2>1, <2>2 DEF Execute, ExecutorBegins
<1>5. CASE Forward \/ (\E f, id \in 1..nextID : Respond(f, id))
             \/ (\E f \in 1..nextID : LineLost(f))
  BY <1>5 DEF Forward, Respond, LineLost, input
<1>6. CASE \E r \in CallResults : EndsWith(r)
  BY <1>6 DEF EndsWith, input
<1>7. CASE UNCHANGED allvars
  BY <1>7 DEF allvars, input
<1>8. QED
  BY <1>1, <1>2, <1>3, <1>4, <1>5, <1>6, <1>7 DEF InteractiveNext

\* Every step is a step of the session or leaves it alone.
LEMMA SessionSteps == [InteractiveNext]_allvars => SessionActs \/ SessionStays
<1> SUFFICES ASSUME [InteractiveNext]_allvars PROVE SessionActs \/ SessionStays
  OBVIOUS
<1> USE DEF SessionActs, SessionStays
<1>1. CASE GoesOn \/ TakeCommand
  BY <1>1 DEF GoesOn, TakeCommand
<1>2. CASE (\E piece \in Pieces : Type(piece)) \/ NewLine
  BY <1>2 DEF Type, NewLine
<1>3. CASE Execute
  <2>1. ASSUME NEW t, Runs(t) PROVE SessionActs \/ SessionStays
    BY <2>1 DEF Runs
  <2>2. QED
    BY <1>3, <2>1 DEF Execute, ExecutorBegins, ExecutorGoesOn
<1>4. CASE Forward \/ (\E f, id \in 1..nextID : Respond(f, id))
             \/ (\E f \in 1..nextID : LineLost(f))
  BY <1>4 DEF Forward, Respond, LineLost
<1>5. CASE \E r \in CallResults : EndsWith(r)
  BY <1>5 DEF EndsWith
<1>6. CASE UNCHANGED allvars
  BY <1>6 DEF allvars, svars
<1>7. QED
  BY <1>1, <1>2, <1>3, <1>4, <1>5, <1>6 DEF InteractiveNext

\* Only the forwarder's own steps touch what it knows of its Forwards.
ForwardStays == UNCHANGED <<nextID, reading, answeredBy, together>>

LEMMA ForwardSteps ==
  [InteractiveNext]_allvars =>
    \/ Forward
    \/ \E f, id \in 1..nextID : Respond(f, id)
    \/ \E f \in 1..nextID : LineLost(f)
    \/ ForwardStays
BY DEF InteractiveNext, GoesOn, TakeCommand, Type, NewLine, Execute, EndsWith, allvars,
       forwarding, ForwardStays

-----------------------------------------------------------------------------
(* The session. *)

\* What is left alone, variable by variable.
LEMMA OpeningStays ==
  UNCHANGED opening =>
    mode' = mode /\ cache' = cache /\ rt' = rt /\ rpcFallback' = rpcFallback
BY DEF opening

LEMMA InstanceStays ==
  UNCHANGED instance =>
    inst' = inst /\ guests' = guests /\ made' = made /\ wired' = wired
BY DEF instance

LEMMA RunningStays ==
  UNCHANGED running => count' = count /\ stopped' = stopped /\ ownPolls' = ownPolls
BY DEF running

LEMMA ResetWorksKeeps ==
  ASSUME made \in Nat, guests \subseteq {inst} \ {NoInstance}, ResetWorks
  PROVE  /\ made' \in Nat /\ made' > 0 /\ inst' \in 0..made' /\ inst' # NoInstance
         /\ guests' = {inst'} /\ (rpcFallback => wired')
BY DEF ResetWorks, NoInstance

LEMMA SessionKept == SessionInv /\ (SessionActs \/ SessionStays) => SessionInv'
<1> SUFFICES ASSUME SessionInv, SessionActs \/ SessionStays PROVE SessionInv'
  OBVIOUS
<1> USE OpeningStays, InstanceStays DEF SessionInv, Opened, ClosedAtReturn, NoInstance
<1>1. CASE NewSession
  BY <1>1 DEF NewSession
<1>2. CASE NewFails
  BY <1>2 DEF NewFails
<1>3. CASE FirstReset
  <2>1. ResetWorks
    BY <1>3 DEF FirstReset
  <2>2. step' \in {"ready", "wire"} /\ (mode = "file" <=> step' = "ready")
    BY <1>3 DEF FirstReset
  <2>3. rt' = "open" /\ mode' = mode /\ (mode' # "file" => rpcFallback')
    BY <1>3 DEF FirstReset
  <2>4. QED
    BY <2>1, <2>2, <2>3, ResetWorksKeeps
<1>4. CASE FirstResetFails
  BY <1>4 DEF FirstResetFails, CloseAll, CloseCache
<1>5. CASE WireFallback
  <2>1. CASE ResetWorks /\ step' = "ready"
    BY <1>5, <2>1, ResetWorksKeeps DEF WireFallback
  <2>2. CASE ResetFails /\ step' = "exited"
    BY <1>5, <2>2 DEF WireFallback, ResetFails
  <2>3. QED
    BY <1>5, <2>1, <2>2 DEF WireFallback
<1>6. CASE CallBegins \/ Polled
  BY <1>6 DEF CallBegins, Polled
<1>7. CASE ModeReturns
  BY <1>7 DEF ModeReturns, SessionClose, CloseAll, CloseCache
<1>8. CASE Exec
  BY <1>8 DEF Exec
<1>9. CASE ExecReset
  <2>1. CASE ResetWorks
    BY <1>9, <2>1, ResetWorksKeeps DEF ExecReset
  <2>2. CASE ResetFails
    BY <1>9, <2>2 DEF ExecReset, ResetFails
  <2>3. QED
    BY <1>9, <2>1, <2>2 DEF ExecReset
<1>10. CASE ExecText \/ ExecExit
  <2>1. step = "ready" /\ step' \in {"ready", "exited"}
    BY <1>10 DEF ExecText, ExecExit
  <2>2. mode' = mode /\ cache' = cache /\ rt' = rt /\ rpcFallback' = rpcFallback
    BY <1>10 DEF ExecText, ExecExit
  <2>3. inst' = inst /\ guests' = guests /\ made' = made /\ wired' = wired
    BY <1>10 DEF ExecText, ExecExit
  <2>4. QED
    BY <2>1, <2>2, <2>3
<1>11. CASE \E r \in CallResults : ExecEnds(r)
  BY <1>11 DEF ExecEnds
<1>12. CASE SessionStays
  BY <1>12 DEF SessionStays
<1>13. QED
  BY <1>1, <1>2, <1>3, <1>4, <1>5, <1>6, <1>7, <1>8, <1>9, <1>10, <1>11, <1>12
  DEF SessionActs, SessionGoesOn

LEMMA SessionAlways == InteractiveSpec => []SessionInv
<1>1. InteractiveInit => SessionInv
  BY DEF InteractiveInit, SessionInit, SessionInv, Opened, ClosedAtReturn, NoInstance
<1>2. SessionInv /\ [InteractiveNext]_allvars => SessionInv'
  BY SessionSteps, SessionKept
<1>3. QED
  BY <1>1, <1>2, PTL DEF InteractiveSpec

\* A command runs on an open instance of an open runtime, and a reset leaves no instance
\* behind, however often one fails (session.go, reset).
THEOREM OneInstanceHolds == InteractiveSpec => []OneInstance
<1>1. SessionInv => OneInstance
  BY DEF SessionInv, OneInstance, Opened
<1>2. QED
  BY <1>1, SessionAlways, PTL

\* When a mode returns, or newSession fails, all that was made is closed (session.go,
\* close, and the error paths of newSession).
THEOREM ClosedAtReturnHolds == InteractiveSpec => []ClosedAtReturn
<1>1. SessionInv => ClosedAtReturn
  BY DEF SessionInv
<1>2. QED
  BY <1>1, SessionAlways, PTL

\* Commands of the JSON and interactive modes run on instances made after the fallback of
\* the RPCs was set (the second reset of both modes).
THEOREM FallbackWiredHolds == InteractiveSpec => []FallbackWired
<1>1. SessionInv => FallbackWired
  BY DEF SessionInv, FallbackWired, Opened
<1>2. QED
  BY <1>1, SessionAlways, PTL

-----------------------------------------------------------------------------
(* The budget. *)

LEMMA BudgetKept == BudgetInv /\ (SessionActs \/ SessionStays) => BudgetInv'
<1> SUFFICES ASSUME BudgetInv, SessionActs \/ SessionStays PROVE BudgetInv'
  OBVIOUS
<1> USE RunningStays DEF BudgetInv
<1>1. CASE NewSession \/ NewFails
  BY <1>1 DEF NewSession, NewFails
<1>2. CASE FirstReset \/ FirstResetFails
  BY <1>2 DEF FirstReset, FirstResetFails, ResetWorks
<1>3. CASE WireFallback
  BY <1>3 DEF WireFallback, ResetWorks, ResetFails
<1>4. CASE CallBegins
  BY <1>4 DEF CallBegins
<1>5. CASE Polled
  <2>1. step' = step /\ count' = count + 1 /\ ownPolls' = ownPolls + 1
    BY <1>5 DEF Polled
  <2>2. stopped' => stopped \/ (MaxOpcodes > 0 /\ count' > MaxOpcodes)
    BY <1>5, Zenon DEF Polled
  <2>3. QED
    BY <2>1, <2>2, SessionAssumption
<1>6. CASE ModeReturns
  BY <1>6 DEF ModeReturns, SessionClose
<1>7. CASE Exec
  BY <1>7 DEF Exec
<1>8. CASE ExecReset
  BY <1>8 DEF ExecReset, ResetWorks, ResetFails
<1>9. CASE ExecText \/ ExecExit
  BY <1>9 DEF ExecText, ExecExit
<1>10. CASE \E r \in CallResults : ExecEnds(r)
  BY <1>10 DEF ExecEnds
<1>11. CASE SessionStays
  BY <1>11 DEF SessionStays
<1>12. QED
  BY <1>1, <1>2, <1>3, <1>4, <1>5, <1>6, <1>7, <1>8, <1>9, <1>10, <1>11
  DEF SessionActs, SessionGoesOn

\* The opcodes of a result are those of its own command, and it is stopped only for its
\* own (session.go, execEval and execDispatch reset the statistics first).
THEOREM BudgetIsOwnHolds == InteractiveSpec => []BudgetIsOwn
<1>1. InteractiveInit => BudgetInv
  BY DEF InteractiveInit, SessionInit, BudgetInv
<1>2. BudgetInv /\ [InteractiveNext]_allvars => BudgetInv'
  BY SessionSteps, BudgetKept
<1>3. BudgetInv => BudgetIsOwn
  BY DEF BudgetInv, BudgetIsOwn
<1>4. QED
  BY <1>1, <1>2, <1>3, PTL DEF InteractiveSpec

-----------------------------------------------------------------------------
(* The prompt and the forwarder. *)

\* The multi-line state of executor is never entered: shouldExecute lets only whole texts
\* through (interactive.go).
THEOREM OneDecisionHolds == InteractiveSpec => []OneDecision
<1>1. InteractiveInit => OneDecision
  BY DEF InteractiveInit, OneDecision
<1>2. QED
  BY <1>1, NeverMultiLine, PTL DEF InteractiveSpec

LEMMA ForwardKept == ForwardInv /\ [InteractiveNext]_allvars => ForwardInv'
<1> SUFFICES ASSUME ForwardInv, [InteractiveNext]_allvars PROVE ForwardInv'
  OBVIOUS
<1> USE InteractiveAssumption DEF ForwardInv, CrossedOnlyTogether
<1>1. CASE Forward
  <2>1. /\ nextID < MaxRPCs /\ nextID' = nextID + 1
        /\ reading' = reading \cup {nextID + 1}
        /\ together' = IF reading = {} THEN together ELSE together \cup reading'
        /\ answeredBy' = answeredBy
    BY <1>1 DEF Forward
  <2>2. \A f, g \in reading' : f # g => f \in together'
    BY <2>1
  <2>3. \A f \in 1..nextID' : answeredBy'[f] \in {0, f} \/ f \in together'
    BY <2>1
  <2>4. QED
    BY <2>1, <2>2, <2>3
<1>2. ASSUME NEW f \in 1..nextID, NEW id \in 1..nextID, Respond(f, id) PROVE ForwardInv'
  <2>1. /\ f \in reading /\ id \in reading /\ reading' = reading \ {f}
        /\ answeredBy' = [answeredBy EXCEPT ![f] = id]
        /\ nextID' = nextID /\ together' = together
    BY <1>2 DEF Respond
  <2>2. id = f \/ f \in together
    BY <2>1
  <2>3. QED
    BY <2>1, <2>2
<1>3. ASSUME NEW f \in 1..nextID, LineLost(f) PROVE ForwardInv'
  BY <1>3 DEF LineLost
<1>4. CASE ForwardStays
  BY <1>4 DEF ForwardStays
<1>5. QED
  BY <1>1, <1>2, <1>3, <1>4, ForwardSteps

\* A Forward that waits alone gets the answer to its own RPC; one gets another's only if
\* two read stdin at once (rpc_forward.go, interactiveRPCForwarder).
THEOREM CrossedOnlyTogetherHolds == InteractiveSpec => []CrossedOnlyTogether
<1>1. InteractiveInit => ForwardInv
  BY InteractiveAssumption DEF InteractiveInit, ForwardInv, CrossedOnlyTogether
<1>2. ForwardInv => CrossedOnlyTogether
  BY DEF ForwardInv
<1>3. QED
  BY <1>1, <1>2, ForwardKept, PTL DEF InteractiveSpec

-----------------------------------------------------------------------------
(* How an error is printed. *)

\* An error that keeps the class of its message, from the guest to the printers.
Classed(e) ==
  /\ e.message \in Messages /\ e.name \in Names \cup {None} /\ e.stack \in BOOLEAN
  /\ \/ e.kind = "js_error" /\ e.code = None /\ RustCode(e.message) = "runtime_error"
     \/ e.kind = "runtime_error" /\ e.code = RustCode(e.message)
     \/ e.kind = "go" /\ e.code = None /\ e.message = Plain

\* The message of the errors without one.
LEMMA PlainHasNoClass == Plain \in Messages /\ RustCode(Plain) = "runtime_error"
  BY DEF Plain, Messages, RustCode

\* Every class has a name, which is not that of no class.
LEMMA ClassNames == \A msg : RustCode(msg) \in Codes /\ RustCode(msg) # None
  BY DEF RustCode, Codes, None

\* What the guest sends keeps its class, or has one that the other side finds again.
LEMMA GuestErrorsClassed == \A g \in GuestErrors : Classed(Parse(g))
<1>0. ASSUME NEW msg \in Messages PROVE Classed(RuntimeError(RustCode(msg), msg))
  BY DEF Classed, RuntimeError
<1>1. ASSUME NEW name \in Names, NEW msg \in Messages, NEW stack \in BOOLEAN
      PROVE  Classed(Parse(Sent(name, msg, stack)))
  <2>1. CASE RustCode(msg) # "runtime_error"
    <3>1. Parse(Sent(name, msg, stack)) = RuntimeError(RustCode(msg), msg)
      BY <2>1 DEF Parse, Sent, RuntimeError
    <3> QED
      BY <1>0, <3>1
  <2>2. CASE RustCode(msg) = "runtime_error"
    <3>1. Parse(Sent(name, msg, stack)) = JsError(name, msg, stack)
      BY <2>2 DEF Parse, Sent, JsError
    <3> QED
      BY <2>2, <3>1 DEF Classed, JsError
  <2> QED
    BY <2>1, <2>2
<1>2. Classed(Parse(RuntimeError("runtime_error", Plain)))
  <2>1. GoCode(Plain) = RustCode(Plain)
    BY DEF GoCode, RustCode
  <2>2. Parse(RuntimeError("runtime_error", Plain)) = RuntimeError(RustCode(Plain), Plain)
    BY <2>1 DEF Parse, RuntimeError
  <2> QED
    BY <1>0, <2>2, PlainHasNoClass
<1> QED
  BY <1>1, <1>2 DEF GuestErrors

\* A screen that shows an error shows the class of its message.
ClassShown(s) ==
  s.shows = "error" =>
    IF s.code = None THEN RustCode(s.message) = "runtime_error"
                     ELSE s.code = RustCode(s.message)

LEMMA ErrorIsScreen ==
  ASSUME NEW code \in Codes \cup {None}, NEW name \in Names \cup {None}, NEW msg \in Messages,
         NEW stack \in BOOLEAN
  PROVE  ShownError(code, name, msg, stack) \in Screens
BY DEF Screens

LEMMA ErrorScreens ==
  ASSUME NEW e, Classed(e)
  PROVE  \A s \in {printJSON(ErrorResult(e)), printInteractive(ErrorResult(e))} :
           s \in Screens /\ ClassShown(s)
<1>1. e # NoError
  BY DEF Classed, NoError
<1>2. e.code \in Codes \cup {None}
  BY ClassNames DEF Classed
<1>3. printJSON(ErrorResult(e)) = ShownError(e.code, e.name, e.message, e.stack)
  BY <1>1 DEF printJSON, ErrorResult
<1>4. \/ /\ e.kind = "js_error"
         /\ printInteractive(ErrorResult(e)) = ShownError(None, e.name, e.message, e.stack)
      \/ /\ e.kind = "runtime_error"
         /\ printInteractive(ErrorResult(e)) = ShownError(e.code, None, e.message, FALSE)
      \/ /\ e.kind \notin {"js_error", "runtime_error"}
         /\ printInteractive(ErrorResult(e)) = ShownError(None, None, e.message, FALSE)
  BY <1>1 DEF printInteractive, ErrorResult
<1>5. \A s \in {printJSON(ErrorResult(e)), printInteractive(ErrorResult(e))} : s \in Screens
  <2>1. FALSE \in BOOLEAN /\ None \in Codes \cup {None} /\ None \in Names \cup {None}
    OBVIOUS
  <2>2. ShownError(e.code, e.name, e.message, e.stack) \in Screens
    BY <1>2, ErrorIsScreen DEF Classed
  <2>3. ShownError(None, e.name, e.message, e.stack) \in Screens
    BY <2>1, ErrorIsScreen DEF Classed
  <2>4. ShownError(e.code, None, e.message, FALSE) \in Screens
    BY <1>2, <2>1, ErrorIsScreen DEF Classed
  <2>5. ShownError(None, None, e.message, FALSE) \in Screens
    BY <2>1, ErrorIsScreen DEF Classed
  <2> QED
    BY <1>3, <1>4, <2>2, <2>3, <2>4, <2>5
<1>6. \A s \in {printJSON(ErrorResult(e)), printInteractive(ErrorResult(e))} : ClassShown(s)
  BY <1>3, <1>4, ClassNames, PlainHasNoClass DEF ShownError, Classed, ClassShown
<1> QED
  BY <1>5, <1>6

LEMMA OtherScreens ==
  /\ \A s \in {Blank, Shown("text"), Shown(None), Shown("value")} : s \in Screens /\ ClassShown(s)
  /\ LET s == ShownError(None, None, Plain, FALSE) IN s \in Screens /\ ClassShown(s)
<1>1. \A s \in {Blank, Shown("text"), Shown(None), Shown("value")} : s \in Screens
  BY DEF Screens
<1>2. \A s \in {Blank, Shown("text"), Shown(None), Shown("value")} : ClassShown(s)
  BY DEF Blank, Shown, None, ClassShown
<1>3. ShownError(None, None, Plain, FALSE) \in Screens
  <2>1. FALSE \in BOOLEAN /\ None \in Codes \cup {None} /\ None \in Names \cup {None}
    OBVIOUS
  <2> QED
    BY <2>1, PlainHasNoClass, ErrorIsScreen
<1>4. ClassShown(ShownError(None, None, Plain, FALSE))
  BY PlainHasNoClass DEF ShownError, ClassShown
<1> QED
  BY <1>1, <1>2, <1>3, <1>4

\* Both printers, for whatever a call or a command ends with.
LEMMA PrintedScreens ==
  \A r \in CallResults \cup {TextResult} :
    \A s \in {printJSON(r), printInteractive(r)} : s \in Screens /\ ClassShown(s)
<1>1. \A v \in {None, "value"} :
        printJSON(ValueResult(v)) = Shown(v) /\ printInteractive(ValueResult(v)) = Shown(v)
  BY DEF printJSON, printInteractive, ValueResult
<1>2. printJSON(TextResult) = Shown("text") /\ printInteractive(TextResult) = Shown("text")
  BY DEF printJSON, printInteractive, TextResult
<1>3. Classed(GoError)
  BY PlainHasNoClass DEF Classed, GoError
<1> QED
  BY <1>1, <1>2, <1>3, GuestErrorsClassed, ErrorScreens, OtherScreens DEF CallResults

\* What a step prints: nothing, what a call or a command ends with, or a line of its own.
LEMMA ScreenSteps ==
  [InteractiveNext]_allvars =>
    \/ screen' \in {screen, Blank, Shown("text"), ShownError(None, None, Plain, FALSE)}
    \/ \E r \in CallResults \cup {TextResult} : screen' \in {printJSON(r), printInteractive(r)}
<1> SUFFICES ASSUME [InteractiveNext]_allvars,
                    screen' \notin {screen, Blank, Shown("text"),
                                    ShownError(None, None, Plain, FALSE)}
             PROVE  \E r \in CallResults \cup {TextResult} : Prints(r)
  BY DEF Prints
<1>1. CASE GoesOn
  BY <1>1 DEF GoesOn, SessionGoesOn, NewSession, NewFails, FirstReset, FirstResetFails,
     WireFallback, CallBegins, Polled, ModeReturns, Quiet
<1>2. CASE Exec
  BY <1>2 DEF Exec, Quiet
<1>3. CASE ExecReset \/ ExecText
  BY <1>3 DEF ExecReset, ExecText, CallResults
<1>4. CASE TakeCommand
  BY <1>2, <1>3, <1>4 DEF TakeCommand
<1>5. CASE (\E piece \in Pieces : Type(piece)) \/ NewLine
  BY <1>5 DEF Type, NewLine, Quiet
<1>6. CASE Execute
  <2>1. ASSUME NEW t, Runs(t) PROVE \E r \in CallResults \cup {TextResult} : Prints(r)
    BY <1>2, <1>3, <2>1 DEF Runs, ExecExit, Quiet
  <2> QED
    BY <1>2, <1>6, <2>1 DEF Execute, ExecutorBegins, ExecutorGoesOn, Quiet
<1>7. CASE Forward \/ (\E f, id \in 1..nextID : Respond(f, id))
             \/ (\E f \in 1..nextID : LineLost(f))
  BY <1>7 DEF Forward, Respond, LineLost, Quiet
<1>8. CASE \E r \in CallResults : EndsWith(r)
  BY <1>8 DEF EndsWith, ExecEnds
<1>9. CASE UNCHANGED allvars
  BY <1>9 DEF allvars, svars
<1> QED
  BY <1>1, <1>4, <1>5, <1>6, <1>7, <1>8, <1>9 DEF InteractiveNext

ScreenInv == screen \in Screens /\ ClassShown(screen)

LEMMA ScreenAlways == InteractiveSpec => []ScreenInv
<1>1. InteractiveInit => ScreenInv
  BY OtherScreens DEF InteractiveInit, SessionInit, ScreenInv
<1>2. ScreenInv /\ [InteractiveNext]_allvars => ScreenInv'
  <2> SUFFICES ASSUME ScreenInv, [InteractiveNext]_allvars PROVE ScreenInv'
    OBVIOUS
  <2>1. PICK s : s = screen'
    OBVIOUS
  <2>2. s \in Screens /\ ClassShown(s)
    BY <2>1, ScreenSteps, PrintedScreens, OtherScreens DEF ScreenInv
  <2> QED
    BY <2>1, <2>2 DEF ScreenInv, ClassShown
<1> QED
  BY <1>1, <1>2, PTL DEF InteractiveSpec

\* In every mode an error is printed with the class of its message, or without one
\* exactly if it has none: the classifiers of both sides (error.rs, errors.go) and both
\* printers agree on every message the guest can send.
THEOREM LimitsShownHolds == InteractiveSpec => []LimitsShown
<1>1. ScreenInv => LimitsShown
  BY DEF ScreenInv, ClassShown, LimitsShown
<1> QED
  BY <1>1, ScreenAlways, PTL

-----------------------------------------------------------------------------
(* Types. *)

SessionData ==
  /\ mode \in {"file", "json", "interactive"} /\ step \in Steps
  /\ cache \in {"none", "open", "closed"} /\ rt \in {"none", "open", "closed"}
  /\ inst \in 0..MaxInstances /\ made \in 0..MaxInstances
  /\ guests \subseteq 1..MaxInstances
  /\ count \in Nat /\ ownPolls \in Nat

Flags ==
  /\ rpcFallback \in BOOLEAN /\ wired \in BOOLEAN /\ stopped \in BOOLEAN
  /\ inMultiLine \in BOOLEAN

InputData == text \in Seq(Chars \cup CommandWords) /\ Len(text) <= MaxText

ForwardData ==
  /\ nextID \in 0..MaxRPCs /\ earlier \in 0..nextID
  /\ reading \subseteq 1..nextID /\ together \subseteq 1..nextID
  /\ answeredBy \in [1..MaxRPCs -> 0..MaxRPCs]

LEMMA SessionDataKept == SessionData /\ (SessionActs \/ SessionStays) => SessionData'
<1> SUFFICES ASSUME SessionData, SessionActs \/ SessionStays PROVE SessionData'
  OBVIOUS
<1> USE OpeningStays, InstanceStays, RunningStays, SessionAssumption DEF SessionData, Steps
<1>1. ASSUME ResetWorks
      PROVE  /\ inst' \in 0..MaxInstances /\ made' \in 0..MaxInstances
             /\ guests' \subseteq 1..MaxInstances /\ count' \in Nat /\ ownPolls' \in Nat
  BY <1>1 DEF ResetWorks
<1>2. ASSUME ResetFails
      PROVE  /\ inst' \in 0..MaxInstances /\ made' \in 0..MaxInstances
             /\ guests' \subseteq 1..MaxInstances /\ count' \in Nat /\ ownPolls' \in Nat
  BY <1>2 DEF ResetFails, NoInstance
<1>3. CASE NewSession \/ NewFails
  BY <1>3 DEF NewSession, NewFails
<1>4. CASE FirstReset
  <2>1. /\ ResetWorks /\ UNCHANGED <<mode, cache, rt>>
        /\ step' \in Steps
    BY <1>4 DEF FirstReset
  <2> QED
    BY <1>1, <2>1
<1>5. CASE FirstResetFails
  BY <1>5 DEF FirstResetFails, CloseAll, CloseCache, NoInstance
<1>6. CASE WireFallback
  <2>1. UNCHANGED opening /\ step' \in Steps /\ (ResetWorks \/ ResetFails)
    BY <1>6 DEF WireFallback
  <2> QED
    BY <1>1, <1>2, <2>1
<1>7. CASE CallBegins
  BY <1>7 DEF CallBegins
<1>8. CASE Polled
  <2>1. count' = count + 1 /\ ownPolls' = ownPolls + 1
    BY <1>8 DEF Polled
  <2>2. mode' = mode /\ cache' = cache /\ rt' = rt /\ step' = step
    BY <1>8 DEF Polled
  <2>3. inst' = inst /\ guests' = guests /\ made' = made
    BY <1>8 DEF Polled
  <2> QED
    BY <2>1, <2>2, <2>3
<1>9. CASE ModeReturns
  BY <1>9 DEF ModeReturns, SessionClose, CloseAll, CloseCache
<1>10. CASE Exec
  BY <1>10 DEF Exec
<1>11. CASE ExecReset
  <2>1. UNCHANGED <<opening, step>> /\ (ResetWorks \/ ResetFails)
    BY <1>11 DEF ExecReset
  <2> QED
    BY <1>1, <1>2, <2>1
<1>12. CASE ExecText \/ ExecExit
  <2>1. /\ UNCHANGED opening /\ UNCHANGED instance /\ UNCHANGED running
        /\ step' \in Steps
    BY <1>12 DEF ExecText, ExecExit
  <2> QED
    BY <2>1
<1>13. CASE \E r \in CallResults : ExecEnds(r)
  <2>1. /\ UNCHANGED opening /\ UNCHANGED instance /\ UNCHANGED running
        /\ step' \in Steps
    BY <1>13 DEF ExecEnds
  <2> QED
    BY <2>1
<1>14. CASE SessionStays
  BY <1>14 DEF SessionStays
<1> QED
  BY <1>3, <1>4, <1>5, <1>6, <1>7, <1>8, <1>9, <1>10, <1>11, <1>12, <1>13, <1>14
  DEF SessionActs, SessionGoesOn

LEMMA FlagsKept == Flags /\ [InteractiveNext]_allvars => Flags'
<1> SUFFICES ASSUME Flags, [InteractiveNext]_allvars PROVE Flags'
  OBVIOUS
<1>1. rpcFallback' = rpcFallback \/ rpcFallback' = (mode # "file")
  BY SessionSteps, OpeningStays, Zenon DEF SessionActs, SessionGoesOn, SessionStays, NewSession,
     NewFails, FirstReset, FirstResetFails, WireFallback, CallBegins, Polled, ModeReturns,
     Exec, ExecReset, ExecText, ExecExit, ExecEnds
<1>2. wired' = wired \/ wired' = rpcFallback \/ wired' = FALSE
  BY SessionSteps, InstanceStays, Zenon DEF SessionActs, SessionGoesOn, SessionStays, NewSession,
     NewFails, FirstReset, FirstResetFails, WireFallback, CallBegins, Polled, ModeReturns,
     Exec, ExecReset, ExecText, ExecExit, ExecEnds, ResetWorks, ResetFails
<1>3. \/ stopped' = stopped \/ stopped' = FALSE
      \/ stopped' = (stopped \/ (MaxOpcodes > 0 /\ count' > MaxOpcodes))
  BY SessionSteps, RunningStays, Zenon DEF SessionActs, SessionGoesOn, SessionStays, NewSession,
     NewFails, FirstReset, FirstResetFails, WireFallback, CallBegins, Polled, ModeReturns,
     Exec, ExecReset, ExecText, ExecExit, ExecEnds, ResetWorks, ResetFails
<1>4. inMultiLine' = inMultiLine \/ inMultiLine' = TRUE \/ inMultiLine' = FALSE
  BY Zenon DEF InteractiveNext, GoesOn, TakeCommand, Type, NewLine, Execute, ExecutorBegins,
     ExecutorGoesOn, Forward, Respond, LineLost, EndsWith, allvars, input
<1> QED
  BY <1>1, <1>2, <1>3, <1>4, Zenon DEF Flags

LEMMA InputDataKept == InputData /\ [InteractiveNext]_allvars => InputData'
<1> SUFFICES ASSUME InputData, [InteractiveNext]_allvars PROVE InputData'
  OBVIOUS
<1> USE InteractiveAssumption DEF InputData
<1>1. ASSUME NEW piece \in Pieces, Type(piece) PROVE InputData'
  <2>1. piece \in Seq(Chars \cup CommandWords) /\ text' = text \o piece /\ Len(text) + Len(piece) <= MaxText
    BY <1>1 DEF Type
  <2> QED
    BY <2>1
<1>2. CASE NewLine
  <2>1. text' = Append(text, "\n") /\ Len(text) < MaxText
    BY <1>2 DEF NewLine
  <2>2. "\n" \in Chars
    BY DEF Chars, Space
  <2> QED
    BY <2>1, <2>2
<1>3. CASE Execute
  BY <1>3 DEF Execute
<1>4. CASE UNCHANGED text
  BY <1>4
<1> QED
  BY <1>1, <1>2, <1>3, <1>4 DEF InteractiveNext, GoesOn, TakeCommand, Forward, Respond, LineLost,
     EndsWith, allvars, input

LEMMA ForwardDataKept == ForwardData /\ [InteractiveNext]_allvars => ForwardData'
<1> SUFFICES ASSUME ForwardData, [InteractiveNext]_allvars PROVE ForwardData'
  OBVIOUS
<1> USE InteractiveAssumption DEF ForwardData
<1>1. earlier' = earlier \/ (earlier' = nextID /\ nextID' = nextID)
  BY DEF InteractiveNext, GoesOn, TakeCommand, Type, NewLine, Execute, Forward, Respond,
     LineLost, EndsWith, allvars, forwarding
<1>2. CASE Forward
  BY <1>1, <1>2 DEF Forward
<1>3. ASSUME NEW f \in 1..nextID, NEW id \in 1..nextID, Respond(f, id) PROVE ForwardData'
  BY <1>1, <1>3 DEF Respond
<1>4. ASSUME NEW f \in 1..nextID, LineLost(f) PROVE ForwardData'
  BY <1>1, <1>4 DEF LineLost
<1>5. CASE ForwardStays
  BY <1>1, <1>5 DEF ForwardStays
<1> QED
  BY <1>2, <1>3, <1>4, <1>5, ForwardSteps

\* The state of the CLI is of the types Session and Interactive name: among them the
\* number of instances within its bound, Forwards whose ids were handed out, and screens
\* that one of the printers can make.
THEOREM InteractiveTypeCorrect == InteractiveSpec => []InteractiveTypeOK
<1>1. InteractiveInit => SessionData /\ InputData /\ ForwardData
  BY SessionAssumption, InteractiveAssumption
  DEF InteractiveInit, SessionInit, SessionData, InputData, ForwardData, Steps, NoInstance
<1>2. InteractiveInit => Flags
  BY Zenon DEF InteractiveInit, SessionInit, Flags
<1>3. SessionData /\ Flags /\ InputData /\ ForwardData /\ ScreenInv => InteractiveTypeOK
  BY DEF SessionData, Flags, InputData, ForwardData, ScreenInv, InteractiveTypeOK, SessionTypeOK
<1>4. SessionData /\ [InteractiveNext]_allvars => SessionData'
  BY SessionSteps, SessionDataKept
<1> QED
  BY <1>1, <1>2, <1>3, <1>4, FlagsKept, InputDataKept, ForwardDataKept, ScreenAlways, PTL
  DEF InteractiveSpec

-----------------------------------------------------------------------------
(* Induction and recursion over the numbers up to a bound.  The library's theorems take a *)
(* predicate, which no prover here can instantiate; these take a set and a function.      *)

\* A set of numbers has a least element.
LEMMA LeastElement ==
  ASSUME NEW S \in SUBSET Nat, S # {}
  PROVE  \E n \in S : \A m \in S : n <= m
<1>1. PICK n \in S : \A m \in S : ~(<<m, n>> \in OpToRel(<, Nat))
  BY NatLessThanWellFounded, WFMin
<1>2. \A m \in S : ~(m < n)
  BY <1>1 DEF OpToRel
<1> QED
  BY <1>2

\* What holds of a number if it holds of all smaller ones, holds of all.
LEMMA InductionUpTo ==
  ASSUME NEW n \in Nat, NEW S,
         \A i \in 0..n : (\A j \in 0..(i - 1) : j \in S) => i \in S
  PROVE  0..n \subseteq S
<1> SUFFICES ASSUME (0..n) \ S # {} PROVE FALSE
  OBVIOUS
<1>1. (0..n) \ S \in SUBSET Nat
  OBVIOUS
<1>2. PICK i \in (0..n) \ S : \A m \in (0..n) \ S : i <= m
  BY <1>1, LeastElement
<1>3. \A j \in 0..(i - 1) : j \in S
  BY <1>2
<1> QED
  BY <1>2, <1>3

\* The rule of a recursion over 0..n, as a function: the value at i depends on those before.
CourseOfValues(rule, n, V) ==
  /\ rule \in [0..n -> [[0..n -> V] -> V]]
  /\ \A i \in 0..n : \A g, h \in [0..n -> V] :
       (\A j \in 0..(i - 1) : g[j] = h[j]) => rule[i][g] = rule[i][h]
Solves(f, rule, n, V) == f \in [0..n -> V] /\ \A i \in 0..n : f[i] = rule[i][f]

\* A recursion over 0..n has a solution.
LEMMA Recursion ==
  ASSUME NEW n \in Nat, NEW V, V # {}, NEW rule, CourseOfValues(rule, n, V)
  PROVE  \E f : Solves(f, rule, n, V)
<1> USE DEF CourseOfValues, Solves
<1> DEFINE S == {m \in 0..n : \E f \in [0..n -> V] : \A i \in 0..m : f[i] = rule[i][f]}
<1>1. ASSUME NEW m \in 0..n, \A j \in 0..(m - 1) : j \in S PROVE m \in S
  <2>1. PICK f \in [0..n -> V] : \A i \in 0..(m - 1) : f[i] = rule[i][f]
    <3>1. CASE m = 0
      <4>1. PICK v : v \in V
        OBVIOUS
      <4>2. [i \in 0..n |-> v] \in [0..n -> V]
        BY <4>1
      <4>3. 0..(m - 1) = {}
        BY <3>1
      <4> QED
        BY <4>2, <4>3
    <3>2. CASE m # 0
      <4>0. m - 1 \in 0..(m - 1)
        BY <3>2
      <4>1. m - 1 \in S
        <5> HIDE DEF S
        <5> QED
          BY <1>1, <4>0
      <4> QED
        BY <4>1
    <3> QED
      BY <3>1, <3>2
  <2> DEFINE g == [f EXCEPT ![m] = rule[m][f]]
  <2>2. g \in [0..n -> V] /\ \A j \in 0..(m - 1) : g[j] = f[j]
    OBVIOUS
  <2>3. g[m] = rule[m][f]
    OBVIOUS
  <2>4. \A i \in 0..m : rule[i][g] = rule[i][f]
    <3> HIDE DEF g
    <3> SUFFICES ASSUME NEW i \in 0..m PROVE rule[i][g] = rule[i][f]
      OBVIOUS
    <3>1. i \in 0..n /\ \A j \in 0..(i - 1) : g[j] = f[j]
      BY <2>2
    <3> QED
      BY <2>2, <3>1
  <2>5. \A i \in 0..m : g[i] = rule[i][g]
    <3> HIDE DEF g
    <3> SUFFICES ASSUME NEW i \in 0..m PROVE g[i] = rule[i][g]
      OBVIOUS
    <3>1. CASE i = m
      BY <2>3, <2>4, <3>1
    <3>2. CASE i # m
      BY <2>1, <2>2, <2>4, <3>2
    <3> QED
      BY <3>1, <3>2
  <2> QED
    BY <2>2, <2>5
<1>2. 0..n \subseteq S
  <2> HIDE DEF S
  <2> QED
    BY <1>1, InductionUpTo
<1>3. n \in S
  <2> HIDE DEF S
  <2>1. n \in 0..n
    OBVIOUS
  <2> QED
    BY <1>2, <2>1
<1> QED
  BY <1>3

-----------------------------------------------------------------------------
(* The scan of a text: Scan for each of its items, by FoldLeft. *)

Items == Chars \cup CommandWords

ScanStates ==
  {s \in [depth : Int, quote : Quotes \cup {NoQuote}, escaped : BOOLEAN] :
     s.escaped => s.quote # NoQuote}
Read(s, t) == FoldLeft(Scan, s, t)

\* The scan of a character takes a state to a state, whatever the character.
LEMMA ScanType ==
  ASSUME NEW s \in ScanStates, NEW c
  PROVE  Scan(s, c) \in ScanStates
<1>1. CASE s.escaped
  BY <1>1 DEF Scan, ScanStates
<1>2. CASE ~s.escaped /\ s.quote # NoQuote
  BY <1>2 DEF Scan, ScanStates
<1>3. CASE ~s.escaped /\ s.quote = NoQuote
  BY <1>3 DEF Scan, ScanStates
<1> QED
  BY <1>1, <1>2, <1>3

\* Max is the largest element.
LEMMA MaxOf ==
  ASSUME NEW n \in Nat, NEW u \in SUBSET (1..n), u # {}
  PROVE  Max(u) \in u /\ \A i \in u : i <= Max(u)
<1> DEFINE T == {n - i : i \in u}
<1>1. T \in SUBSET Nat /\ T # {}
  <2>1. \A i \in u : n - i \in Nat
    OBVIOUS
  <2> QED
    BY <2>1
<1>0. \A i \in u : i \in Nat
  OBVIOUS
<1>2. PICK m \in T : \A k \in T : m <= k
  <2> HIDE DEF T
  <2> QED
    BY <1>1, LeastElement
<1>3. PICK j \in u : m = n - j
  BY <1>2
<1>4. \A i \in u : j >= i
  <2> SUFFICES ASSUME NEW i \in u PROVE j >= i
    OBVIOUS
  <2>1. m <= n - i
    BY <1>2
  <2> HIDE DEF T
  <2>2. i \in Nat /\ j \in Nat
    BY <1>0
  <2> QED
    BY <1>3, <2>1, <2>2
<1> QED
  BY <1>3, <1>4 DEF Max

\* A set without its largest element is smaller by one.
LEMMA SubsetSize ==
  ASSUME NEW n \in Nat, NEW u \in SUBSET (1..n)
  PROVE  /\ Cardinality(u) \in 0..n
         /\ u # {} => /\ Max(u) \in u /\ Cardinality(u) # 0
                      /\ Cardinality(u \ {Max(u)}) = Cardinality(u) - 1
<1>1. IsFiniteSet(1..n) /\ Cardinality(1..n) = n
  BY FS_Interval
<1>2. IsFiniteSet(u) /\ Cardinality(u) <= Cardinality(1..n)
  BY <1>1, FS_Subset
<1>3. Cardinality(u) \in Nat
  BY <1>2, FS_CardinalityType
<1>4. CASE u # {}
  <2>1. Max(u) \in u
    BY <1>4, MaxOf
  <2>2. Cardinality(u) # 0
    BY <1>2, <1>4, FS_EmptySet
  <2>3. IsFiniteSet(u \ {Max(u)}) /\ Cardinality(u \ {Max(u)}) = Cardinality(u) - 1
    BY <1>2, <2>1, FS_RemoveElement
  <2> QED
    BY <1>1, <1>2, <1>3, <2>1, <2>2, <2>3
<1> QED
  BY <1>1, <1>2, <1>3, <1>4

\* The equation of the fold.
LEMMA FoldEquation ==
  ASSUME NEW n \in Nat, NEW t \in [1..n -> Items], NEW s \in ScanStates
  PROVE  \E g \in [SUBSET (1..n) -> ScanStates] :
           g = [u \in SUBSET (1..n) |->
                  IF u = {} THEN s ELSE Scan(g[u \ {Max(u)}], t[Max(u)])]
<1> DEFINE D == SUBSET (1..n)
           V == [D -> ScanStates]
           val(k, h, u) == IF u = {} \/ k = 0 THEN s
                           ELSE Scan(h[k - 1][u \ {Max(u)}], t[Max(u)])
           rule == [k \in 0..n |-> [h \in [0..n -> V] |-> [u \in D |-> val(k, h, u)]]]
<1>1. V # {}
  <2>1. [u \in D |-> s] \in V
    OBVIOUS
  <2> QED
    BY <2>1
<1>2. \A k \in 0..n, h \in [0..n -> V], u \in D : val(k, h, u) \in ScanStates
  <2> SUFFICES ASSUME NEW k \in 0..n, NEW h \in [0..n -> V], NEW u \in D, u # {}, k # 0
               PROVE  Scan(h[k - 1][u \ {Max(u)}], t[Max(u)]) \in ScanStates
    OBVIOUS
  <2>1. u \ {Max(u)} \in D
    OBVIOUS
  <2>2. k - 1 \in 0..n
    OBVIOUS
  <2>3. h[k - 1] \in V
    BY <2>2
  <2>4. h[k - 1][u \ {Max(u)}] \in ScanStates
    BY <2>1, <2>3
  <2> QED
    BY <2>4, ScanType
<1>3. rule \in [0..n -> [[0..n -> V] -> V]]
  <2> HIDE DEF val
  <2> QED
    BY <1>2
<1>4. ASSUME NEW k \in 0..n, NEW g \in [0..n -> V], NEW h \in [0..n -> V],
             \A j \in 0..(k - 1) : g[j] = h[j]
      PROVE  rule[k][g] = rule[k][h]
  <2>1. k # 0 => g[k - 1] = h[k - 1]
    <3>1. k # 0 => k - 1 \in 0..(k - 1)
      OBVIOUS
    <3> QED
      BY <1>4, <3>1
  <2>2. \A u \in D : val(k, g, u) = val(k, h, u)
    BY <2>1
  <2> HIDE DEF val
  <2> QED
    BY <2>2
<1>5. CourseOfValues(rule, n, V)
  <2> HIDE DEF rule, V, val, D
  <2> QED
    BY <1>3, <1>4 DEF CourseOfValues
<1>6. PICK f : Solves(f, rule, n, V)
  <2> HIDE DEF rule, V, val, D
  <2> QED
    BY <1>1, <1>5, Recursion
<1>7. \A k \in 0..n, u \in D : f[k][u] = val(k, f, u)
  <2> HIDE DEF val
  <2> QED
    BY <1>6 DEF Solves
<1> DEFINE g == [u \in D |-> f[Cardinality(u)][u]]
<1>8. \A k \in 0..n, u \in D : f[k][u] \in ScanStates
  <2> HIDE DEF val, rule
  <2> QED
    BY <1>6 DEF Solves
<1>9. ASSUME NEW u \in D
      PROVE  /\ Cardinality(u) \in 0..n
             /\ u # {} => /\ Max(u) \in u /\ Cardinality(u) # 0
                          /\ Cardinality(u \ {Max(u)}) = Cardinality(u) - 1
  BY SubsetSize
<1>10. g \in [D -> ScanStates]
  <2> HIDE DEF D
  <2> QED
    BY <1>9, <1>8
<1>11. ASSUME NEW u \in D
      PROVE  g[u] = IF u = {} THEN s ELSE Scan(g[u \ {Max(u)}], t[Max(u)])
  <2>1. g[u] = val(Cardinality(u), f, u)
    <3> HIDE DEF val
    <3> QED
      BY <1>7, <1>9
  <2>2. CASE u # {}
    <3>1. u \ {Max(u)} \in D
      OBVIOUS
    <3>2. g[u \ {Max(u)}] = f[Cardinality(u) - 1][u \ {Max(u)}]
      BY <1>9, <2>2, <3>1
    <3> QED
      BY <1>9, <2>1, <2>2, <3>2
  <2> QED
    BY <2>1, <2>2
<1> QED
  <2> HIDE DEF g
  <2> WITNESS g \in [D -> ScanStates]
  <2> QED
    BY <1>10, <1>11

FoldRule(g, s, t) ==
  g = [u \in SUBSET DOMAIN t |-> IF u = {} THEN s ELSE Scan(g[u \ {Max(u)}], t[Max(u)])]

\* FoldLeft, which is a CHOOSE, is the value of a function that satisfies its equation.
LEMMA FoldHas ==
  ASSUME NEW s \in ScanStates, NEW t \in Seq(Items)
  PROVE  \E g : FoldRule(g, s, t) /\ Read(s, t) = g[DOMAIN t]
<1>1. Len(t) \in Nat /\ t \in [1..Len(t) -> Items] /\ DOMAIN t = 1..Len(t)
  BY LenProperties
<1>2. PICK f : FoldRule(f, s, t)
  <2>1. \E g \in [SUBSET (1..Len(t)) -> ScanStates] :
           g = [u \in SUBSET (1..Len(t)) |->
                  IF u = {} THEN s ELSE Scan(g[u \ {Max(u)}], t[Max(u)])]
    BY <1>1, FoldEquation
  <2> QED
    BY <1>1, <2>1 DEF FoldRule
<1> DEFINE g == CHOOSE h : FoldRule(h, s, t)
<1>3. FoldRule(g, s, t)
  BY <1>2
<1>4. Read(s, t) = g[DOMAIN t]
  BY DEF Read, FoldLeft, MapThenFoldSet, FoldRule
<1> QED
  BY <1>3, <1>4

\* The states before and after each character of a text.
Follows(at, s, t) ==
  /\ at \in [0..Len(t) -> ScanStates]
  /\ at[0] = s
  /\ \A i \in 1..Len(t) : at[i] = Scan(at[i - 1], t[i])

\* The largest of the first numbers is the last.
LEMMA MaxOfInterval == ASSUME NEW i \in Nat, i # 0 PROVE Max(1..i) = i
<1>1. 1..i \in SUBSET (1..i) /\ i \in 1..i
  OBVIOUS
<1>2. Max(1..i) \in 1..i /\ \A k \in 1..i : k <= Max(1..i)
  BY <1>1, MaxOf
<1> HIDE DEF Max
<1> QED
  BY <1>1, <1>2

\* Reading a text goes through the states of one scan after the other.
LEMMA ReadStates ==
  ASSUME NEW s \in ScanStates, NEW t \in Seq(Items)
  PROVE  \E at : Follows(at, s, t) /\ Read(s, t) = at[Len(t)]
<1> DEFINE n == Len(t)
<1>1. n \in Nat /\ DOMAIN t = 1..n
  BY LenProperties
<1>2. PICK g : FoldRule(g, s, t) /\ Read(s, t) = g[DOMAIN t]
  BY FoldHas
<1> DEFINE at == [i \in 0..n |-> g[1..i]]
<1> HIDE DEF n
<1>3. \A u \in SUBSET (1..n) :
        g[u] = IF u = {} THEN s ELSE Scan(g[u \ {Max(u)}], t[Max(u)])
  BY <1>1, <1>2 DEF FoldRule
<1>4. at[0] = s
  <2>1. 1..0 = {} /\ 0 \in 0..n
    BY <1>1
  <2>2. at[0] = g[1..0]
    BY <2>1
  <2>3. {} \in SUBSET (1..n)
    OBVIOUS
  <2> HIDE DEF at
  <2> QED
    BY <1>3, <2>1, <2>2, <2>3
<1>5. ASSUME NEW i \in 1..n PROVE at[i] = Scan(at[i - 1], t[i])
  <2>1. i \in Nat /\ i # 0 /\ i \in 0..n /\ i - 1 \in 0..n
    BY <1>1
  <2>2. Max(1..i) = i
    BY <2>1, MaxOfInterval
  <2>3. (1..i) \ {i} = 1..(i - 1)
    BY <2>1
  <2>4. 1..i \in SUBSET (1..n) /\ 1..i # {}
    <3>1. \A k \in 1..i : k \in 1..n
      BY <1>1, <2>1
    <3>2. i \in 1..i
      BY <2>1
    <3> QED
      BY <3>1, <3>2
  <2>5. g[1..i] = Scan(g[1..(i - 1)], t[i])
    BY <1>3, <2>2, <2>3, <2>4
  <2>6. at[i] = g[1..i] /\ at[i - 1] = g[1..(i - 1)]
    BY <2>1
  <2> HIDE DEF at
  <2> QED
    BY <2>5, <2>6
<1>6. \A i \in 0..n : at[i] \in ScanStates
  <2> DEFINE S == {i \in 0..n : at[i] \in ScanStates}
  <2>1. ASSUME NEW i \in 0..n, \A j \in 0..(i - 1) : j \in S PROVE i \in S
    <3> HIDE DEF at
    <3>1. CASE i = 0
      BY <1>4, <3>1
    <3>2. CASE i # 0
      <4>1. i - 1 \in 0..(i - 1) /\ i \in 1..n
        BY <1>1, <3>2
      <4>2. at[i - 1] \in ScanStates
        BY <2>1, <4>1
      <4> QED
        BY <1>5, <4>1, <4>2, ScanType
    <3> QED
      BY <3>1, <3>2
  <2>2. 0..n \subseteq S
    <3> HIDE DEF S, at
    <3> QED
      BY <1>1, <2>1, InductionUpTo
  <2> HIDE DEF at
  <2> QED
    BY <2>2
<1>7. at \in [0..n -> ScanStates]
  BY <1>6
<1>8. Read(s, t) = at[n]
  BY <1>1, <1>2
<1> QED
  <2> HIDE DEF at
  <2> QED
    BY <1>4, <1>5, <1>7, <1>8 DEF Follows, n

\* There is one such function, so that any is as good as that of the fold.
LEMMA ReadIs ==
  ASSUME NEW s \in ScanStates, NEW t \in Seq(Items), NEW at, Follows(at, s, t)
  PROVE  Read(s, t) = at[Len(t)]
<1>1. PICK to : Follows(to, s, t) /\ Read(s, t) = to[Len(t)]
  BY ReadStates
<1> DEFINE n == Len(t)
           S == {i \in 0..n : at[i] = to[i]}
<1>2. n \in Nat
  BY LenProperties
<1>3. ASSUME NEW i \in 0..n, \A j \in 0..(i - 1) : j \in S PROVE i \in S
  <2>1. CASE i = 0
    BY <1>1, <2>1 DEF Follows
  <2>2. CASE i # 0
    <3>1. i - 1 \in 0..(i - 1) /\ i \in 1..n
      BY <1>2, <2>2
    <3>2. at[i - 1] = to[i - 1]
      BY <1>3, <3>1
    <3> QED
      BY <1>1, <3>1, <3>2 DEF Follows
  <2> QED
    BY <2>1, <2>2
<1>4. 0..n \subseteq S
  <2> HIDE DEF S, n
  <2> QED
    BY <1>2, <1>3, InductionUpTo
<1>5. n \in 0..n
  BY <1>2
<1> QED
  BY <1>1, <1>4, <1>5

\* What has been read is a state of the scan.
LEMMA ReadType ==
  ASSUME NEW s \in ScanStates, NEW t \in Seq(Items)
  PROVE  Read(s, t) \in ScanStates
<1>1. PICK at : Follows(at, s, t) /\ Read(s, t) = at[Len(t)]
  BY ReadStates
<1>2. Len(t) \in 0..Len(t)
  BY LenProperties
<1> QED
  BY <1>1, <1>2 DEF Follows

\* Nothing is read of the empty text.
LEMMA ReadEmpty == ASSUME NEW s \in ScanStates PROVE Read(s, << >>) = s
<1>1. << >> \in Seq(Items) /\ Len(<< >>) = 0
  BY EmptySeq
<1>2. PICK at : Follows(at, s, << >>) /\ Read(s, << >>) = at[Len(<< >>)]
  BY <1>1, ReadStates
<1> QED
  BY <1>1, <1>2 DEF Follows

\* A text of one character is read by one scan.
LEMMA ReadOne ==
  ASSUME NEW s \in ScanStates, NEW c \in Items
  PROVE  Read(s, <<c>>) = Scan(s, c)
<1>1. <<c>> \in Seq(Items) /\ Len(<<c>>) = 1 /\ <<c>>[1] = c
  OBVIOUS
<1>2. PICK at : Follows(at, s, <<c>>) /\ Read(s, <<c>>) = at[Len(<<c>>)]
  BY <1>1, ReadStates
<1>3. 1 \in 1..1 /\ 1 - 1 = 0
  OBVIOUS
<1> QED
  BY <1>1, <1>2, <1>3 DEF Follows

\* A text that follows another is read from where that one ends.
LEMMA ReadConcat ==
  ASSUME NEW s \in ScanStates, NEW a \in Seq(Items), NEW b \in Seq(Items)
  PROVE  Read(s, a \o b) = Read(Read(s, a), b)
<1> DEFINE m == Len(a)
           n == Len(b)
<1>1. m \in Nat /\ n \in Nat
  BY LenProperties
<1>2. /\ a \o b \in Seq(Items) /\ Len(a \o b) = m + n
      /\ \A i \in 1..(m + n) : (a \o b)[i] = IF i <= m THEN a[i] ELSE b[i - m]
  BY ConcatProperties
<1>3. PICK f : Follows(f, s, a) /\ Read(s, a) = f[m]
  BY ReadStates
<1>4. PICK g : Follows(g, Read(s, a), b) /\ Read(Read(s, a), b) = g[n]
  BY ReadStates, ReadType
<1> DEFINE h == [i \in 0..(m + n) |-> IF i <= m THEN f[i] ELSE g[i - m]]
<1>5. f \in [0..m -> ScanStates] /\ f[0] = s /\ \A i \in 1..m : f[i] = Scan(f[i - 1], a[i])
  BY <1>3 DEF Follows
<1>6. /\ g \in [0..n -> ScanStates] /\ g[0] = f[m]
      /\ \A i \in 1..n : g[i] = Scan(g[i - 1], b[i])
  BY <1>3, <1>4 DEF Follows
<1> HIDE DEF m, n
<1>7. h \in [0..(m + n) -> ScanStates]
  <2>1. ASSUME NEW i \in 0..(m + n) PROVE (IF i <= m THEN f[i] ELSE g[i - m]) \in ScanStates
    <3>1. CASE i <= m
      <4>1. i \in 0..m
        BY <1>1, <3>1
      <4> QED
        BY <1>5, <3>1, <4>1
    <3>2. CASE ~(i <= m)
      <4>1. i - m \in 0..n
        BY <1>1, <3>2
      <4> QED
        BY <1>6, <3>2, <4>1
    <3> QED
      BY <3>1, <3>2
  <2> QED
    BY <2>1
<1>8. h[0] = s
  BY <1>1, <1>5
<1>9. ASSUME NEW i \in 1..(m + n) PROVE h[i] = Scan(h[i - 1], (a \o b)[i])
  <2>1. i \in 0..(m + n) /\ i - 1 \in 0..(m + n) /\ i \in Nat
    BY <1>1
  <2>2. /\ h[i] = IF i <= m THEN f[i] ELSE g[i - m]
        /\ h[i - 1] = IF i - 1 <= m THEN f[i - 1] ELSE g[i - 1 - m]
    BY <2>1
  <2> HIDE DEF h
  <2>3. CASE i <= m
    <3>1. i \in 1..m /\ i - 1 <= m
      BY <1>1, <2>1, <2>3
    <3> QED
      BY <1>2, <1>5, <2>2, <2>3, <3>1
  <2>4. CASE i = m + 1
    <3>1. ~(i <= m) /\ i - 1 <= m /\ i - m = 1 /\ i - 1 = m /\ 1 \in 1..n /\ 1 - 1 = 0
      BY <1>1, <2>1, <2>4
    <3>2. h[i] = g[1] /\ h[i - 1] = f[m]
      <4>1. h[i] = g[i - m] /\ h[i - 1] = f[i - 1]
        BY <2>2, <3>1, Zenon
      <4> QED
        BY <3>1, <4>1, Zenon
    <3>3. g[1] = Scan(g[0], b[1])
      <4>1. g[1] = Scan(g[1 - 1], b[1])
        BY <1>6, <3>1, Zenon
      <4> QED
        BY <3>1, <4>1, Zenon
    <3>4. (a \o b)[i] = b[1]
      <4>1. (a \o b)[i] = b[i - m]
        BY <1>2, <3>1, Zenon
      <4> QED
        BY <3>1, <4>1, Zenon
    <3> QED
      BY <1>6, <3>2, <3>3, <3>4, Zenon
  <2>5. CASE i > m + 1
    <3>1. ~(i <= m) /\ ~(i - 1 <= m) /\ i - m \in 1..n /\ i - m - 1 = i - 1 - m
      BY <1>1, <2>1, <2>5
    <3>2. g[i - m] = Scan(g[i - m - 1], b[i - m])
      BY <1>6, <3>1, Zenon
    <3>3. h[i] = g[i - m] /\ h[i - 1] = g[i - 1 - m]
      BY <2>2, <3>1, Zenon
    <3>4. (a \o b)[i] = b[i - m]
      BY <1>2, <3>1, Zenon
    <3> QED
      BY <3>1, <3>2, <3>3, <3>4, Zenon
  <2>6. i <= m \/ i = m + 1 \/ i > m + 1
    BY <1>1, <2>1
  <2> QED
    BY <2>3, <2>4, <2>5, <2>6
<1>10. Follows(h, s, a \o b)
  <2> HIDE DEF h
  <2> QED
    BY <1>2, <1>7, <1>8, <1>9 DEF Follows
<1>11. h[m + n] = g[n]
  <2>1. m + n \in 0..(m + n) /\ (m + n <= m => n = 0) /\ m + n - m = n /\ (n = 0 => m + n = m)
    BY <1>1
  <2>2. h[m + n] = IF m + n <= m THEN f[m + n] ELSE g[m + n - m]
    <3>1. \A i \in 0..(m + n) : h[i] = IF i <= m THEN f[i] ELSE g[i - m]
      OBVIOUS
    <3>2. \A k \in Nat : k = m + n => h[k] = IF k <= m THEN f[k] ELSE g[k - m]
      <4> HIDE DEF h
      <4> QED
        BY <1>1, <3>1
    <3>3. m + n \in Nat
      BY <1>1
    <3> HIDE DEF h
    <3> QED
      BY <1>1, <3>2, <3>3
  <2> HIDE DEF h
  <2> QED
    BY <1>1, <1>6, <2>1, <2>2
<1>12. Read(s, a \o b) = h[Len(a \o b)]
  <2> HIDE DEF h
  <2> QED
    BY <1>2, <1>10, ReadIs
<1> QED
  <2> HIDE DEF h
  <2> QED
    BY <1>2, <1>4, <1>11, <1>12

-----------------------------------------------------------------------------
(* The two recursive functions of the grammar. *)

BodiesStep(f, n) ==
  [q \in Quotes |->
     IF n = 0 THEN {<< >>}
     ELSE CharThen(q, f[n - 1][q]) \cup (IF n = 1 THEN {} ELSE EscapedThen(f[n - 2][q]))]
StringsFirst(f, n) ==
  UNION {StringThen(q, Bodies[k][q], f[n - 2 - k]) : q \in Quotes, k \in 0..(n - 2)}
BracketsFirst(f, n) ==
  UNION {BracketsThen(b, f[k], f[n - 2 - k]) : b \in Brackets, k \in 0..(n - 2)}
BalancedStep(f, n) ==
  IF n = 0 THEN {<< >>}
  ELSE PlainThen(f[n - 1]) \cup StringsFirst(f, n) \cup BracketsFirst(f, n)

Texts == SUBSET Seq(Chars)

\* The grammar is bounded.
LEMMA GrammarBound == MaxGrammar \in Nat
BY InteractiveAssumption DEF InteractiveAssumption, MaxGrammar

\* A character before a text makes a text.
LEMMA ConsType ==
  ASSUME NEW A, NEW c \in A, NEW t \in Seq(A)
  PROVE  Cons(c, t) \in Seq(A)
<1>1. <<c>> \in Seq(A)
  OBVIOUS
<1> QED
  BY <1>1, ConcatProperties DEF Cons

\* The parts of the grammar are made of texts.
LEMMA ThenTexts ==
  ASSUME NEW inside \in Texts, NEW rest \in Texts
  PROVE  /\ \A q : CharThen(q, rest) \in Texts
         /\ EscapedThen(rest) \in Texts
         /\ PlainThen(rest) \in Texts
         /\ \A q \in Quotes : StringThen(q, inside, rest) \in Texts
         /\ \A b \in Brackets : BracketsThen(b, inside, rest) \in Texts
<1>1. \A c \in Chars, t \in rest : Cons(c, t) \in Seq(Chars)
  BY ConsType DEF Texts
<1>2. \A c, d \in Chars, t \in rest : Cons(d, Cons(c, t)) \in Seq(Chars)
  BY <1>1, ConsType
<1>3. \A c, d \in Chars, u \in inside, t \in rest : Cons(c, u) \o Cons(d, t) \in Seq(Chars)
  BY ConsType, ConcatProperties DEF Texts
<1>4. /\ "backslash" \in Chars /\ Quotes \subseteq Chars /\ Space \cup {"x", Json} \subseteq Chars
      /\ \A b \in Brackets : b[1] \in Chars /\ b[2] \in Chars
  BY DEF Chars, Quotes, Space, Brackets, Openers, Closers
<1>5. ASSUME NEW q, NEW x \in CharThen(q, rest) PROVE x \in Seq(Chars)
  BY <1>1 DEF CharThen
<1>6. ASSUME NEW x \in EscapedThen(rest) PROVE x \in Seq(Chars)
  BY <1>2, <1>4 DEF EscapedThen
<1>7. ASSUME NEW x \in PlainThen(rest) PROVE x \in Seq(Chars)
  <2>1. PICK c \in Space \cup {"x", Json}, t \in rest : x = Cons(c, t)
    BY DEF PlainThen
  <2> QED
    BY <1>1, <1>4, <2>1
<1>8. ASSUME NEW q \in Quotes, NEW x \in StringThen(q, inside, rest) PROVE x \in Seq(Chars)
  <2>1. PICK u \in inside, t \in rest : x = Cons(q, u) \o Cons(q, t)
    BY DEF StringThen
  <2> QED
    BY <1>3, <1>4, <2>1
<1>9. ASSUME NEW b \in Brackets, NEW x \in BracketsThen(b, inside, rest) PROVE x \in Seq(Chars)
  <2>1. PICK u \in inside, t \in rest : x = Cons(b[1], u) \o Cons(b[2], t)
    BY DEF BracketsThen
  <2> QED
    BY <1>3, <1>4, <2>1
<1> QED
  BY <1>5, <1>6, <1>7, <1>8, <1>9 DEF Texts

\* The empty text alone.
LEMMA EmptyText == {<< >>} \in Texts
BY EmptySeq DEF Texts

\* What a step of the recursion makes of texts.
LEMMA BodiesType ==
  ASSUME NEW n \in Nat, NEW f, \A j \in 0..(n - 1) : f[j] \in [Quotes -> Texts]
  PROVE  BodiesStep(f, n) \in [Quotes -> Texts]
<1> SUFFICES ASSUME NEW q \in Quotes
             PROVE  (IF n = 0 THEN {<< >>}
                     ELSE CharThen(q, f[n - 1][q])
                            \cup (IF n = 1 THEN {} ELSE EscapedThen(f[n - 2][q]))) \in Texts
  BY DEF BodiesStep
<1>1. ASSUME n # 0 PROVE CharThen(q, f[n - 1][q]) \in Texts
  <2>1. n - 1 \in 0..(n - 1)
    BY <1>1
  <2>2. f[n - 1][q] \in Texts
    BY <2>1
  <2> QED
    BY <2>2, ThenTexts
<1>2. ASSUME n # 0, n # 1 PROVE EscapedThen(f[n - 2][q]) \in Texts
  <2>1. n - 2 \in 0..(n - 1)
    BY <1>2
  <2>2. f[n - 2][q] \in Texts
    BY <2>1
  <2> QED
    BY <2>2, ThenTexts
<1> QED
  BY <1>1, <1>2, EmptyText DEF Texts

\* Bodies, which is a CHOOSE, satisfies its own definition.
LEMMA BodiesRecursion ==
  \A n \in 0..MaxGrammar : Bodies[n] = BodiesStep(Bodies, n)
<1> DEFINE M == MaxGrammar
           V == [Quotes -> Texts]
           rule == [n \in 0..M |-> [f \in [0..M -> V] |-> BodiesStep(f, n)]]
<1>0. M \in Nat
  BY GrammarBound
<1> HIDE DEF M
<1>1. V # {}
  <2>1. [q \in Quotes |-> {<< >>}] \in V
    BY EmptyText
  <2> QED
    BY <2>1
<1>2. ASSUME NEW n \in 0..M, NEW f \in [0..M -> V] PROVE BodiesStep(f, n) \in V
  <2>1. \A j \in 0..(n - 1) : f[j] \in V
    BY <1>0
  <2> QED
    BY <1>0, <2>1, BodiesType
<1>3. ASSUME NEW n \in 0..M, NEW f \in [0..M -> V], NEW g \in [0..M -> V],
             \A j \in 0..(n - 1) : f[j] = g[j]
      PROVE  BodiesStep(f, n) = BodiesStep(g, n)
  <2>1. n # 0 => f[n - 1] = g[n - 1]
    <3>1. n # 0 => n - 1 \in 0..(n - 1)
      BY <1>0
    <3> QED
      BY <1>3, <3>1
  <2>2. n # 0 /\ n # 1 => f[n - 2] = g[n - 2]
    <3>1. n # 0 /\ n # 1 => n - 2 \in 0..(n - 1)
      BY <1>0
    <3> QED
      BY <1>3, <3>1
  <2> QED
    BY <2>1, <2>2 DEF BodiesStep
<1>4. CourseOfValues(rule, M, V)
  <2> HIDE DEF V
  <2> QED
    BY <1>2, <1>3 DEF CourseOfValues
<1>5. PICK f : Solves(f, rule, M, V)
  <2> HIDE DEF rule, V
  <2> QED
    BY <1>0, <1>1, <1>4, Recursion
<1>6. f \in [0..M -> V] /\ \A n \in 0..M : f[n] = BodiesStep(f, n)
  <2> HIDE DEF V
  <2> QED
    BY <1>5 DEF Solves
<1> DEFINE Is(h) == h = [n \in 0..M |-> BodiesStep(h, n)]
<1>7. Bodies = CHOOSE h : Is(h)
  BY DEF Bodies, BodiesStep, M
<1>8. Is(f)
  BY <1>6
<1>9. Is(Bodies)
  <2> HIDE DEF Is
  <2> QED
    BY <1>7, <1>8
<1> QED
  BY <1>9 DEF M

-----------------------------------------------------------------------------
(* What the scan makes of the texts of the grammar. *)

\* Outside of a string (NoQuote), or in one in quotes q.
ScanningIn(q) == {s \in ScanStates : s.quote = q /\ ~s.escaped}

\* A text of characters is a text.
LEMMA CharsAreItems == Seq(Chars) \subseteq Seq(Items)
BY SeqMonotonic DEF Items

\* The first character is read first.
LEMMA ReadCons ==
  ASSUME NEW s \in ScanStates, NEW c \in Chars, NEW t \in Seq(Chars)
  PROVE  Read(s, Cons(c, t)) = Read(Scan(s, c), t)
<1>1. c \in Items /\ t \in Seq(Items)
  BY CharsAreItems DEF Items
<1>2. <<c>> \in Seq(Items)
  BY <1>1
<1> QED
  BY <1>1, <1>2, ReadConcat, ReadOne DEF Cons

\* ReadConcat, for texts of characters.
LEMMA ReadTwo ==
  ASSUME NEW s \in ScanStates, NEW a \in Seq(Chars), NEW b \in Seq(Chars)
  PROVE  Read(s, a \o b) = Read(Read(s, a), b)
BY CharsAreItems, ReadConcat

\* In a string, a character or a backslash with what it escapes changes nothing.
LEMMA ScanInside ==
  ASSUME NEW q \in Quotes, NEW s \in ScanningIn(q)
  PROVE  /\ \A c \in Chars \ {q, "backslash"} : Scan(s, c) = s
         /\ Scan(s, "backslash") \in ScanStates
         /\ \A c \in Chars : Scan(Scan(s, "backslash"), c) = s
<1> s \in ScanStates /\ s.quote = q /\ ~s.escaped /\ q # NoQuote
  BY DEF ScanningIn, Quotes, NoQuote
<1>1. ASSUME NEW c \in Chars \ {q, "backslash"} PROVE Scan(s, c) = s
  BY DEF Scan
<1>2. Scan(s, "backslash") = [s EXCEPT !.escaped = TRUE]
  BY DEF Scan
<1>3. Scan(s, "backslash") \in ScanStates
  BY ScanType
<1>4. ASSUME NEW c \in Chars PROVE Scan([s EXCEPT !.escaped = TRUE], c) = s
  BY DEF Scan, ScanStates
<1> QED
  BY <1>1, <1>2, <1>3, <1>4

\* A closing bracket counts down.
LEMMA ScanCloser ==
  ASSUME NEW r \in ScanningIn(NoQuote), NEW c \in Closers
  PROVE  Scan(r, c) = [r EXCEPT !.depth = @ - 1]
<1>1. c \notin Openers \cup Quotes
  BY DEF Closers, Openers, Quotes
<1> QED
  BY <1>1 DEF Scan, ScanningIn

\* Outside of strings, a plain character changes nothing, a quote begins a string that the
\* same quote ends, and a closing bracket undoes an opening one.
LEMMA ScanOutside ==
  ASSUME NEW s \in ScanningIn(NoQuote)
  PROVE  /\ \A c \in Space \cup {"x", Json} : Scan(s, c) = s
         /\ \A q \in Quotes : Scan(s, q) \in ScanningIn(q) /\ Scan(Scan(s, q), q) = s
         /\ \A b \in Brackets : /\ Scan(s, b[1]) \in ScanningIn(NoQuote)
                                /\ Scan(Scan(s, b[1]), b[2]) = s
<1> s \in ScanStates /\ s.quote = NoQuote /\ ~s.escaped
  BY DEF ScanningIn
<1>1. ASSUME NEW c \in Space \cup {"x", Json} PROVE Scan(s, c) = s
  BY DEF Scan, Space, Json, Quotes, Openers, Closers
<1>2. ASSUME NEW q \in Quotes
      PROVE  Scan(s, q) \in ScanningIn(q) /\ Scan(Scan(s, q), q) = s
  <2>1. q # NoQuote /\ q # "backslash"
    BY DEF Quotes, NoQuote
  <2>2. Scan(s, q) = [s EXCEPT !.quote = q]
    BY DEF Scan
  <2>3. Scan(s, q) \in ScanStates
    BY ScanType
  <2>4. Scan(s, q) \in ScanningIn(q)
    BY <2>2, <2>3 DEF ScanningIn, ScanStates
  <2>5. Scan([s EXCEPT !.quote = q], q) = s
    BY <2>1 DEF Scan, ScanStates
  <2> QED
    BY <2>2, <2>4, <2>5
<1>3. ASSUME NEW b \in Brackets
      PROVE  Scan(s, b[1]) \in ScanningIn(NoQuote) /\ Scan(Scan(s, b[1]), b[2]) = s
  <2>1. /\ b[1] \in Openers /\ b[1] \notin Quotes
        /\ b[2] \in Closers /\ b[2] \notin Openers \cup Quotes
    BY DEF Brackets, Openers, Closers, Quotes
  <2>2. Scan(s, b[1]) = [s EXCEPT !.depth = @ + 1]
    BY <2>1 DEF Scan
  <2>3. Scan(s, b[1]) \in ScanStates
    BY ScanType
  <2>4. Scan(s, b[1]) \in ScanningIn(NoQuote)
    BY <2>2, <2>3 DEF ScanningIn, ScanStates
  <2> DEFINE r == [s EXCEPT !.depth = @ + 1]
  <2>5. s.depth \in Int /\ r \in ScanningIn(NoQuote) /\ r.depth = s.depth + 1
    BY <2>2, <2>4 DEF ScanStates
  <2>6. [r EXCEPT !.depth = @ - 1] = s
    <3>1. s.depth + 1 - 1 = s.depth
      BY <2>5
    <3>2. r.quote = s.quote /\ r.escaped = s.escaped /\ r \in ScanStates
      BY <2>5 DEF ScanningIn, ScanStates
    <3> HIDE DEF r
    <3>3. [r EXCEPT !.depth = @ - 1] = [depth |-> s.depth, quote |-> s.quote, escaped |-> s.escaped]
      BY <2>5, <3>1, <3>2 DEF ScanStates
    <3>4. s = [depth |-> s.depth, quote |-> s.quote, escaped |-> s.escaped]
      BY DEF ScanStates
    <3> QED
      BY <3>3, <3>4
  <2> HIDE DEF r
  <2>7. Scan(r, b[2]) = s
    BY <2>1, <2>5, <2>6, ScanCloser
  <2> QED
    BY <2>2, <2>4, <2>7 DEF r
<1> QED
  BY <1>1, <1>2, <1>3

\* The inside of a string leaves the scan where it was, in the string.
LEMMA BodyRead ==
  ASSUME NEW n \in 0..MaxGrammar
  PROVE  /\ Bodies[n] \in [Quotes -> Texts]
         /\ \A q \in Quotes : \A b \in Bodies[n][q] : \A s \in ScanningIn(q) : Read(s, b) = s
<1> DEFINE Same(k) == \A q \in Quotes : \A b \in Bodies[k][q] : \A s \in ScanningIn(q) :
                        Read(s, b) = s
           S == {k \in 0..MaxGrammar : Bodies[k] \in [Quotes -> Texts] /\ Same(k)}
<1>1. ASSUME NEW k \in 0..MaxGrammar, \A j \in 0..(k - 1) : j \in S PROVE k \in S
  <2>0. k \in Nat
    BY GrammarBound
  <2>1. \A j \in 0..(k - 1) : Bodies[j] \in [Quotes -> Texts] /\ Same(j)
    <3> HIDE DEF Same
    <3> QED
      BY <1>1
  <2>2. Bodies[k] = BodiesStep(Bodies, k)
    BY BodiesRecursion
  <2>3. Bodies[k] \in [Quotes -> Texts]
    BY <2>0, <2>1, <2>2, BodiesType
  <2>4. ASSUME NEW q \in Quotes, NEW b \in Bodies[k][q], NEW s \in ScanningIn(q)
        PROVE  Read(s, b) = s
    <3>0. s \in ScanStates
      BY DEF ScanningIn
    <3>1. Bodies[k][q] = IF k = 0 THEN {<< >>}
                         ELSE CharThen(q, Bodies[k - 1][q])
                                \cup (IF k = 1 THEN {} ELSE EscapedThen(Bodies[k - 2][q]))
      BY <2>2 DEF BodiesStep
    <3>2. CASE k = 0
      BY <3>0, <3>1, <3>2, ReadEmpty
    <3>3. CASE k # 0 /\ b \in CharThen(q, Bodies[k - 1][q])
      <4>1. k - 1 \in 0..(k - 1)
        BY <2>0, <3>3
      <4>2. PICK c \in Chars \ {q, "backslash"}, t \in Bodies[k - 1][q] : b = Cons(c, t)
        BY <3>3 DEF CharThen
      <4>3. t \in Seq(Chars) /\ Read(s, t) = s
        BY <2>1, <4>1 DEF Texts
      <4>4. Read(s, b) = Read(Scan(s, c), t)
        BY <3>0, <4>2, <4>3, ReadCons
      <4> QED
        BY <4>3, <4>4, ScanInside
    <3>4. CASE k # 0 /\ k # 1 /\ b \in EscapedThen(Bodies[k - 2][q])
      <4>1. k - 2 \in 0..(k - 1)
        BY <2>0, <3>4
      <4>2. PICK c \in Chars, t \in Bodies[k - 2][q] : b = Cons("backslash", Cons(c, t))
        BY <3>4 DEF EscapedThen
      <4>3. t \in Seq(Chars) /\ Read(s, t) = s
        BY <2>1, <4>1 DEF Texts
      <4>4. "backslash" \in Chars /\ Cons(c, t) \in Seq(Chars)
        BY <4>3, ConsType DEF Chars
      <4>5. Read(s, b) = Read(Scan(s, "backslash"), Cons(c, t))
        BY <3>0, <4>2, <4>4, ReadCons
      <4>6. Read(Scan(s, "backslash"), Cons(c, t)) = Read(Scan(Scan(s, "backslash"), c), t)
        BY <4>3, ScanInside, ReadCons
      <4> QED
        BY <4>3, <4>5, <4>6, ScanInside
    <3> QED
      BY <3>1, <3>2, <3>3, <3>4
  <2> QED
    BY <2>3, <2>4
<1>2. 0..MaxGrammar \subseteq S
  <2> HIDE DEF S
  <2> QED
    BY <1>1, GrammarBound, InductionUpTo
<1> QED
  BY <1>2

\* What a text of a part of the grammar is made of.
LEMMA InThen ==
  ASSUME NEW rest, NEW inside, NEW b
  PROVE  /\ \A x \in PlainThen(rest) : \E c \in Space \cup {"x", Json}, t \in rest : x = Cons(c, t)
         /\ \A x \in BracketsThen(b, inside, rest) :
              \E u \in inside, t \in rest : x = Cons(b[1], u) \o Cons(b[2], t)
BY DEF PlainThen, BracketsThen

\* What a step of the recursion makes of texts.
LEMMA BalancedType ==
  ASSUME NEW n \in 0..MaxGrammar, NEW f, \A j \in 0..(n - 1) : f[j] \in Texts
  PROVE  BalancedStep(f, n) \in Texts
<1>0. n \in Nat
  BY GrammarBound
<1>1. CASE n = 0
  BY <1>1, EmptyText DEF BalancedStep
<1>2. CASE n # 0
  <2>1. PlainThen(f[n - 1]) \in Texts
    <3>1. n - 1 \in 0..(n - 1)
      BY <1>0, <1>2
    <3>2. f[n - 1] \in Texts
      BY <3>1
    <3> QED
      BY <3>2, ThenTexts
  <2>2. ASSUME NEW k \in 0..(n - 2) PROVE f[k] \in Texts /\ f[n - 2 - k] \in Texts
    <3>1. k \in 0..(n - 1) /\ n - 2 - k \in 0..(n - 1)
      BY <1>0
    <3> QED
      BY <3>1
  <2>3. ASSUME NEW q \in Quotes, NEW k \in 0..(n - 2)
        PROVE  StringThen(q, Bodies[k][q], f[n - 2 - k]) \in Texts
    <3>1. k \in 0..MaxGrammar
      BY <1>0, GrammarBound
    <3>2. Bodies[k][q] \in Texts
      BY <3>1, BodyRead
    <3> QED
      BY <2>2, <3>2, ThenTexts
  <2>4. ASSUME NEW b \in Brackets, NEW k \in 0..(n - 2)
        PROVE  BracketsThen(b, f[k], f[n - 2 - k]) \in Texts
    BY <2>2, ThenTexts
  <2>5. StringsFirst(f, n) \in Texts
    BY <2>3 DEF Texts, StringsFirst
  <2>6. BracketsFirst(f, n) \in Texts
    BY <2>4 DEF Texts, BracketsFirst
  <2> QED
    BY <1>2, <2>1, <2>5, <2>6 DEF BalancedStep, Texts
<1> QED
  BY <1>1, <1>2

\* It depends on what is shorter.
LEMMA BalancedDepends ==
  ASSUME NEW n \in 0..MaxGrammar, NEW f, NEW g, \A j \in 0..(n - 1) : f[j] = g[j]
  PROVE  BalancedStep(f, n) = BalancedStep(g, n)
<1>0. n \in Nat
  BY GrammarBound
<1>1. n # 0 => PlainThen(f[n - 1]) = PlainThen(g[n - 1])
  <2>1. n # 0 => n - 1 \in 0..(n - 1)
    BY <1>0
  <2> QED
    BY <2>1
<1>2. \A k \in 0..(n - 2) : f[k] = g[k] /\ f[n - 2 - k] = g[n - 2 - k]
  <2>1. \A k \in 0..(n - 2) : k \in 0..(n - 1) /\ n - 2 - k \in 0..(n - 1)
    BY <1>0
  <2> QED
    BY <2>1
<1>3. StringsFirst(f, n) = StringsFirst(g, n)
  BY <1>2 DEF StringsFirst
<1>4. BracketsFirst(f, n) = BracketsFirst(g, n)
  BY <1>2 DEF BracketsFirst
<1> QED
  BY <1>1, <1>3, <1>4 DEF BalancedStep

\* Balanced, which is a CHOOSE, satisfies its own definition.
LEMMA BalancedRecursion ==
  \A n \in 0..MaxGrammar : Balanced[n] = BalancedStep(Balanced, n)
<1> DEFINE M == MaxGrammar
           rule == [n \in 0..M |-> [f \in [0..M -> Texts] |-> BalancedStep(f, n)]]
<1>0. M \in Nat
  BY GrammarBound
<1>1. Texts # {}
  BY EmptyText
<1>2. ASSUME NEW n \in 0..M, NEW f \in [0..M -> Texts] PROVE BalancedStep(f, n) \in Texts
  <2>1. \A j \in 0..(n - 1) : f[j] \in Texts
    <3> HIDE DEF M
    <3>1. \A j \in 0..(n - 1) : j \in 0..M
      BY <1>0
    <3> QED
      BY <3>1
  <2> QED
    BY <2>1, BalancedType
<1>3. ASSUME NEW n \in 0..M, NEW f \in [0..M -> Texts], NEW g \in [0..M -> Texts],
             \A j \in 0..(n - 1) : f[j] = g[j]
      PROVE  BalancedStep(f, n) = BalancedStep(g, n)
  BY <1>3, BalancedDepends
<1>4. CourseOfValues(rule, M, Texts)
  <2> HIDE DEF M
  <2> QED
    BY <1>2, <1>3 DEF CourseOfValues
<1>5. PICK f : Solves(f, rule, M, Texts)
  <2> HIDE DEF rule, M
  <2> QED
    BY <1>0, <1>1, <1>4, Recursion
<1>6. f \in [0..M -> Texts] /\ \A n \in 0..M : f[n] = BalancedStep(f, n)
  <2> HIDE DEF M
  <2> QED
    BY <1>5 DEF Solves
<1> DEFINE Is(h) == h = [n \in 0..M |-> BalancedStep(h, n)]
<1>7. Balanced = CHOOSE h : Is(h)
  BY DEF Balanced, BalancedStep, StringsFirst, BracketsFirst
<1>8. Is(f)
  BY <1>6
<1>9. Is(Balanced)
  <2> HIDE DEF Is
  <2> QED
    BY <1>7, <1>8
<1> QED
  BY <1>9

\* A text of the grammar leaves the scan where it was, outside of strings.
LEMMA BalancedRead ==
  ASSUME NEW n \in 0..MaxGrammar
  PROVE  /\ Balanced[n] \in Texts
         /\ \A t \in Balanced[n] : \A s \in ScanningIn(NoQuote) : Read(s, t) = s
<1> DEFINE Same(k) == \A t \in Balanced[k] : \A s \in ScanningIn(NoQuote) : Read(s, t) = s
           S == {k \in 0..MaxGrammar : Balanced[k] \in Texts /\ Same(k)}
<1>1. ASSUME NEW k \in 0..MaxGrammar, \A j \in 0..(k - 1) : j \in S PROVE k \in S
  <2>0. k \in Nat
    BY GrammarBound
  <2>1. \A j \in 0..(k - 1) : Balanced[j] \in Texts /\ Same(j)
    <3> HIDE DEF Same
    <3> QED
      BY <1>1
  <2>2. Balanced[k] = BalancedStep(Balanced, k)
    BY BalancedRecursion
  <2>3. Balanced[k] \in Texts
    BY <2>1, <2>2, BalancedType
  <2>4. ASSUME NEW t \in Balanced[k], NEW s \in ScanningIn(NoQuote) PROVE Read(s, t) = s
    <3>0. s \in ScanStates
      BY DEF ScanningIn
    <3>1. CASE k = 0
      BY <2>2, <3>0, <3>1, ReadEmpty DEF BalancedStep
    <3>2. CASE k # 0 /\ t \in PlainThen(Balanced[k - 1])
      <4>1. k - 1 \in 0..(k - 1)
        BY <2>0, <3>2
      <4>2. PICK c \in Space \cup {"x", Json}, u \in Balanced[k - 1] : t = Cons(c, u)
        BY <3>2, InThen
      <4>3. c \in Chars /\ u \in Seq(Chars) /\ Read(s, u) = s
        BY <2>1, <4>1 DEF Texts, Chars
      <4>4. Read(s, t) = Read(Scan(s, c), u)
        BY <3>0, <4>2, <4>3, ReadCons
      <4> QED
        BY <4>3, <4>4, ScanOutside
    <3>3. ASSUME NEW q \in Quotes, NEW j \in 0..(k - 2),
                 t \in StringThen(q, Bodies[j][q], Balanced[k - 2 - j])
          PROVE  Read(s, t) = s
      <4>1. j \in 0..MaxGrammar /\ k - 2 - j \in 0..(k - 1)
        BY <2>0, GrammarBound
      <4>2. PICK b \in Bodies[j][q], u \in Balanced[k - 2 - j] : t = Cons(q, b) \o Cons(q, u)
        BY <3>3 DEF StringThen
      <4>3. q \in Chars /\ b \in Seq(Chars) /\ u \in Seq(Chars) /\ Read(s, u) = s
        BY <2>1, <4>1, BodyRead DEF Texts, Chars
      <4>4. Cons(q, b) \in Seq(Chars) /\ Cons(q, u) \in Seq(Chars)
        BY <4>3, ConsType
      <4>5. Scan(s, q) \in ScanningIn(q) /\ Scan(Scan(s, q), q) = s /\ Scan(s, q) \in ScanStates
        BY ScanOutside DEF ScanningIn
      <4>6. Read(s, Cons(q, b)) = Scan(s, q)
        BY <3>0, <4>1, <4>3, <4>5, ReadCons, BodyRead
      <4>7. Read(Scan(s, q), Cons(q, u)) = s
        BY <4>3, <4>5, ReadCons
      <4> QED
        BY <3>0, <4>2, <4>4, <4>6, <4>7, ReadTwo
    <3>4. ASSUME NEW b \in Brackets, NEW j \in 0..(k - 2),
                 t \in BracketsThen(b, Balanced[j], Balanced[k - 2 - j])
          PROVE  Read(s, t) = s
      <4>1. j \in 0..(k - 1) /\ k - 2 - j \in 0..(k - 1)
        BY <2>0
      <4>2. PICK v \in Balanced[j], u \in Balanced[k - 2 - j] :
              t = Cons(b[1], v) \o Cons(b[2], u)
        BY <3>4, InThen
      <4>3. b[1] \in Chars /\ b[2] \in Chars
        BY DEF Brackets, Chars, Openers, Closers
      <4>4. v \in Seq(Chars) /\ u \in Seq(Chars) /\ Read(s, u) = s
        BY <2>1, <4>1 DEF Texts
      <4>5. Cons(b[1], v) \in Seq(Chars) /\ Cons(b[2], u) \in Seq(Chars)
        BY <4>3, <4>4, ConsType
      <4>6. /\ Scan(s, b[1]) \in ScanningIn(NoQuote) /\ Scan(s, b[1]) \in ScanStates
            /\ Scan(Scan(s, b[1]), b[2]) = s
        BY ScanOutside DEF ScanningIn
      <4>7. Read(s, Cons(b[1], v)) = Scan(s, b[1])
        BY <2>1, <3>0, <4>1, <4>3, <4>4, <4>6, ReadCons
      <4>8. Read(Scan(s, b[1]), Cons(b[2], u)) = s
        BY <4>3, <4>4, <4>6, ReadCons
      <4> QED
        BY <3>0, <4>2, <4>5, <4>7, <4>8, ReadTwo
    <3>5. CASE k # 0
      <4>1. \/ t \in PlainThen(Balanced[k - 1])
            \/ \E q \in Quotes, j \in 0..(k - 2) :
                 t \in StringThen(q, Bodies[j][q], Balanced[k - 2 - j])
            \/ \E b \in Brackets, j \in 0..(k - 2) :
                 t \in BracketsThen(b, Balanced[j], Balanced[k - 2 - j])
        <5>1. t \in PlainThen(Balanced[k - 1]) \cup StringsFirst(Balanced, k)
                      \cup BracketsFirst(Balanced, k)
          BY <2>2, <3>5 DEF BalancedStep
        <5>2. CASE t \in StringsFirst(Balanced, k)
          BY <5>2 DEF StringsFirst
        <5>3. CASE t \in BracketsFirst(Balanced, k)
          BY <5>3 DEF BracketsFirst
        <5> QED
          BY <5>1, <5>2, <5>3
      <4> QED
        BY <3>2, <3>3, <3>4, <3>5, <4>1
    <3> QED
      BY <3>1, <3>5
  <2> QED
    BY <2>3, <2>4
<1>2. 0..MaxGrammar \subseteq S
  <2> HIDE DEF S
  <2> QED
    BY <1>1, GrammarBound, InductionUpTo
<1> QED
  BY <1>2

-----------------------------------------------------------------------------
(* What isComplete says of a text. *)

AtStart == [depth |-> 0, quote |-> NoQuote, escaped |-> FALSE]

\* isComplete, by what is read of the text.
LEMMA IsCompleteReads ==
  ASSUME NEW t
  PROVE  isComplete(t) <=> Read(AtStart, t).depth <= 0 /\ Read(AtStart, t).quote = NoQuote
BY DEF isComplete, Read, AtStart

\* A scan starts outside of strings.
LEMMA StartsOutside == AtStart \in ScanningIn(NoQuote) /\ AtStart \in ScanStates
BY DEF AtStart, ScanningIn, ScanStates

\* A text whose brackets and strings end is read back to the start.
LEMMA BalancedIsRead ==
  ASSUME NEW t \in BalancedTexts
  PROVE  t \in Seq(Chars) /\ Read(AtStart, t) = AtStart
<1>1. PICK n \in 0..MaxGrammar : t \in Balanced[n]
  BY DEF BalancedTexts
<1> QED
  BY <1>1, BalancedRead, StartsOutside DEF Texts

\* A text whose brackets and strings end is complete.
LEMMA BalancedIsComplete == ASSUME NEW t \in BalancedTexts PROVE isComplete(t)
<1>1. Read(AtStart, t) = AtStart
  BY BalancedIsRead
<1>2. AtStart.depth <= 0 /\ AtStart.quote = NoQuote
  BY DEF AtStart
<1> QED
  BY <1>1, <1>2, IsCompleteReads

\* A text of two characters is one after the other.
LEMMA Pair ==
  ASSUME NEW c \in Items, NEW d \in Items
  PROVE  <<c, d>> \in Seq(Items) /\ <<c, d>> = <<c>> \o <<d>>
<1> DEFINE a == <<c>>
           b == <<d>>
           p == <<c, d>>
<1>1. a \in Seq(Items) /\ Len(a) = 1 /\ a[1] = c
  OBVIOUS
<1>2. b \in Seq(Items) /\ Len(b) = 1 /\ b[1] = d
  OBVIOUS
<1>3. p \in Seq(Items) /\ Len(p) = 2 /\ p[1] = c /\ p[2] = d
  OBVIOUS
<1> HIDE DEF a, b, p
<1>4. /\ a \o b \in Seq(Items) /\ Len(a \o b) = 2
      /\ (a \o b)[1] = a[1] /\ (a \o b)[2] = b[1]
  <2>1. /\ a \o b \in Seq(Items)
        /\ Len(a \o b) = Len(a) + Len(b)
        /\ \A i \in 1..(Len(a) + Len(b)) :
              (a \o b)[i] = IF i <= Len(a) THEN a[i] ELSE b[i - Len(a)]
    <3>1. a \in Seq(Items) /\ b \in Seq(Items)
      BY <1>1, <1>2
    <3> QED
      BY <3>1, ConcatProperties, Zenon
  <2>2. Len(a) = 1 /\ Len(a) + Len(b) = 2
    BY <1>1, <1>2
  <2>3. \A i \in 1..2 : (a \o b)[i] = IF i <= 1 THEN a[i] ELSE b[i - 1]
    BY <2>1, <2>2, Zenon
  <2>4. (a \o b)[1] = a[1] /\ (a \o b)[2] = b[1]
    <3>1. 1 \in 1..2 /\ 2 \in 1..2 /\ 1 <= 1 /\ ~(2 <= 1) /\ 2 - 1 = 1
      OBVIOUS
    <3>2. /\ (a \o b)[1] = IF 1 <= 1 THEN a[1] ELSE b[1 - 1]
          /\ (a \o b)[2] = IF 2 <= 1 THEN a[2] ELSE b[2 - 1]
      BY <2>3, <3>1, Zenon
    <3> QED
      BY <3>1, <3>2, Zenon
  <2> QED
    BY <2>1, <2>2, <2>4
<1>5. \A i \in 1..2 : p[i] = (a \o b)[i]
  <2>1. \A i \in 1..2 : i = 1 \/ i = 2
    OBVIOUS
  <2> QED
    BY <1>1, <1>2, <1>3, <1>4, <2>1
<1>6. p = a \o b
  BY <1>3, <1>4, <1>5, SeqEqual
<1> QED
  BY <1>3, <1>6 DEF a, b, p

\* It is read by two scans.
LEMMA PairRead ==
  ASSUME NEW s \in ScanStates, NEW c \in Items, NEW d \in Items
  PROVE  <<c, d>> \in Seq(Items) /\ Read(s, <<c, d>>) = Scan(Scan(s, c), d)
<1> DEFINE a == <<c>>
           b == <<d>>
<1>1. a \in Seq(Items) /\ b \in Seq(Items)
  OBVIOUS
<1>2. Read(s, a) = Scan(s, c) /\ Scan(s, c) \in ScanStates
  BY ReadOne, ScanType
<1>3. Read(Scan(s, c), b) = Scan(Scan(s, c), d)
  BY <1>2, ReadOne
<1>4. <<c, d>> \in Seq(Items) /\ <<c, d>> = a \o b
  BY Pair
<1> HIDE DEF a, b
<1>5. Read(s, a \o b) = Read(Read(s, a), b)
  BY <1>1, ReadConcat
<1> QED
  BY <1>2, <1>3, <1>4, <1>5

\* From a state that isComplete accepts, no ending leads back to the start.
LEMMA EndingTakesAway ==
  ASSUME NEW s \in ScanningIn(NoQuote), s.depth <= 0, NEW e \in Endings
  PROVE  e \in Seq(Items) /\ Read(s, e) # AtStart
<1> s \in ScanStates /\ s.depth \in Int
  BY DEF ScanningIn, ScanStates
<1>0. /\ Closers \subseteq Items /\ Quotes \subseteq Items
      /\ Closers \cap (Quotes \cup {"backslash"}) = {} /\ NoQuote \notin Quotes
  BY DEF Items, Chars, Closers, Quotes, NoQuote
<1>1. ASSUME NEW r \in ScanningIn(NoQuote), NEW c \in Closers
      PROVE  Scan(r, c) \in ScanningIn(NoQuote) /\ Scan(r, c).depth = r.depth - 1
  <2>1. r \in ScanStates
    BY DEF ScanningIn
  <2> QED
    BY <2>1, ScanCloser DEF ScanningIn, ScanStates
<1>2. \A q \in Quotes : Scan(s, q) \in ScanningIn(q)
  BY ScanOutside
<1>3. \A q \in Quotes : \A r \in ScanningIn(q) : r # AtStart
  BY <1>0 DEF ScanningIn, AtStart
<1>4. CASE \E c \in Closers : e = <<c>>
  <2>1. PICK c \in Closers : e = <<c>>
    BY <1>4
  <2>2. Read(s, e) = Scan(s, c)
    BY <1>0, <2>1, ReadOne
  <2>3. Scan(s, c).depth # 0
    BY <1>1
  <2> QED
    BY <1>0, <2>1, <2>2, <2>3 DEF AtStart
<1>5. CASE \E q \in Quotes : e = <<q>>
  <2>1. PICK q \in Quotes : e = <<q>>
    BY <1>5
  <2>2. Read(s, e) = Scan(s, q)
    BY <1>0, <2>1, ReadOne
  <2> QED
    BY <1>0, <1>2, <1>3, <2>1, <2>2
<1>6. \A c, d \in Items : <<c, d>> \in Seq(Items) /\ Read(s, <<c, d>>) = Scan(Scan(s, c), d)
  BY PairRead
<1>7. CASE \E c, d \in Closers : e = <<c, d>>
  <2>1. PICK c \in Closers, d \in Closers : e = <<c, d>>
    BY <1>7
  <2>2. Scan(s, c) \in ScanningIn(NoQuote) /\ Scan(s, c).depth = s.depth - 1
    BY <1>1
  <2>3. Scan(Scan(s, c), d).depth = s.depth - 1 - 1
    BY <1>1, <2>2
  <2>4. s.depth - 1 - 1 # 0
    OBVIOUS
  <2> QED
    BY <1>0, <1>6, <2>1, <2>3, <2>4 DEF AtStart
<1>8. CASE \E q \in Quotes, d \in Closers : e = <<q, d>>
  <2>1. PICK q \in Quotes, d \in Closers : e = <<q, d>>
    BY <1>8
  <2>2. d \in Chars \ {q, "backslash"}
    BY <1>0 DEF Chars
  <2>3. Scan(Scan(s, q), d) \in ScanningIn(q)
    BY <1>2, <2>2, ScanInside
  <2> QED
    BY <1>0, <1>3, <1>6, <2>1, <2>3
<1> QED
  BY <1>4, <1>5, <1>7, <1>8 DEF Endings

\* A text that lacks only an ending is not complete.
LEMMA UnfinishedIsNotComplete ==
  ASSUME NEW t \in Seq(Items), NEW e \in Endings, t \o e \in BalancedTexts
  PROVE  ~isComplete(t)
<1> DEFINE s == Read(AtStart, t)
<1> SUFFICES ASSUME s.depth <= 0, s.quote = NoQuote PROVE FALSE
  BY IsCompleteReads
<1>1. s \in ScanStates
  BY StartsOutside, ReadType
<1> HIDE DEF s
<1>2. s \in ScanningIn(NoQuote)
  BY <1>1 DEF ScanningIn, ScanStates
<1>3. e \in Seq(Items) /\ Read(s, e) # AtStart
  BY <1>2, EndingTakesAway
<1>4. Read(AtStart, t \o e) = Read(s, e)
  BY <1>3, StartsOutside, ReadConcat DEF s
<1> QED
  BY <1>3, <1>4, BalancedIsRead

\* Min is an element.
LEMMA MinOf ==
  ASSUME NEW u \in SUBSET Nat, u # {}
  PROVE  Min(u) \in u
<1>1. \E m \in u : \A k \in u : m <= k
  BY LeastElement
<1> QED
  BY <1>1 DEF Min

\* strings.TrimSpace takes a part of the text.
LEMMA TrimSpaceType == ASSUME NEW t \in Seq(Items) PROVE TrimSpace(t) \in Seq(Items)
<1> DEFINE kept == {i \in 1..Len(t) : t[i] \notin Space}
<1>1. TrimSpace(t) = IF kept = {} THEN << >> ELSE SubSeq(t, Min(kept), Max(kept))
  BY DEF TrimSpace
<1>2. Len(t) \in Nat
  BY LenProperties
<1>3. CASE kept # {}
  <2>1. kept \in SUBSET (1..Len(t)) /\ kept \in SUBSET Nat
    BY <1>2
  <2> HIDE DEF kept
  <2>2. Min(kept) \in 1..Len(t) /\ Max(kept) \in 1..Len(t)
    BY <1>2, <1>3, <2>1, MinOf, MaxOf
  <2>3. \A i \in Min(kept)..Max(kept) : t[i] \in Items
    <3>1. \A i \in Min(kept)..Max(kept) : i \in 1..Len(t)
      BY <1>2, <2>2
    <3> QED
      BY <3>1, ElementOfSeq
  <2>4. SubSeq(t, Min(kept), Max(kept)) \in Seq(Items)
    BY <2>2, <2>3, SubSeqProperties
  <2> QED
    BY <1>1, <1>3, <2>4
<1> QED
  BY <1>1, <1>3, EmptySeq

\* The property, by the two facts about isComplete: no multi-line text is ever open.
LEMMA BracketsAreRead == OneDecision /\ text \in Seq(Items) => ReadsBrackets
<1> SUFFICES ASSUME OneDecision, text \in Seq(Items), TrimSpace(text) # << >>,
                    ~IsDot(TrimSpace(text))
             PROVE  LET t == TrimSpace(text) IN
                      /\ t \in BalancedTexts => shouldExecute
                      /\ (t \notin BalancedTexts /\ \E s \in Endings : t \o s \in BalancedTexts)
                           => ~shouldExecute
  BY DEF ReadsBrackets
<1> DEFINE t == TrimSpace(text)
<1>1. shouldExecute <=> isComplete(t)
  BY DEF shouldExecute, OneDecision
<1>2. t \in Seq(Items)
  BY TrimSpaceType
<1>3. t \in BalancedTexts => isComplete(t)
  BY BalancedIsComplete
<1>4. (\E s \in Endings : t \o s \in BalancedTexts) => ~isComplete(t)
  BY <1>2, UnfinishedIsNotComplete
<1> HIDE DEF t
<1> QED
  BY <1>1, <1>3, <1>4 DEF t

\* ReadsBrackets: whatever is typed, up to any length, Enter executes a text whose brackets
\* and strings end, and inserts a newline after one that lacks only closing ones.
THEOREM ReadsBracketsHolds == InteractiveSpec => []ReadsBrackets
<1>1. InteractiveTypeOK => text \in Seq(Items)
  BY DEF InteractiveTypeOK, Items
<1>2. OneDecision /\ InteractiveTypeOK => ReadsBrackets
  BY <1>1, BracketsAreRead
<1> QED
  BY <1>2, OneDecisionHolds, InteractiveTypeCorrect, PTL
=============================================================================
