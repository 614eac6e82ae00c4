--------------------------- MODULE TrackingProofs ---------------------------
(***************************************************************************)
(* Proofs about Tracking for every budget and every value of the bounds.   *)
(* All properties follow from one inductive invariant, TrackingInv: where  *)
(* the guest is tells what the flags and the clock are, what the drain     *)
(* saved is what it found, and the next check is never out of reach.       *)
(***************************************************************************)
EXTENDS Tracking, TLAPS

-----------------------------------------------------------------------------
(* Type correctness. *)

\* A sample is a number, and so is what is left of the statistics by a poll.
LEMMA SampleType ==
  ASSUME TrackingTypeOK
  PROVE  Sample \in Nat
  BY DEF TrackingTypeOK, Sample, Off

LEMMA TypeInit == TrackingInit => TrackingTypeOK
<1> SUFFICES ASSUME TrackingInit PROVE TrackingTypeOK
  OBVIOUS
<1>1. unit \in 0..MaxUnits
  BY TrackingAssumption DEF TrackingAssumption, TrackingInit
<1>2. saved \in Stats
  BY DEF TrackingInit, Stats, Off
<1>3. /\ place \in Places /\ {opcodes, cpu, nextCheck, polls, passed, spent, held} \subseteq Nat
      /\ since \in Nat \cup {Off}
  BY DEF TrackingInit, Places, CheckInterval
<1>4. /\ draining \in BOOLEAN /\ initialized \in BOOLEAN /\ usedRpcCalls \in BOOLEAN
      /\ force \in BOOLEAN /\ trapped \in BOOLEAN
  BY DEF TrackingInit
<1>5. forcedIn \in 0..MaxUnits \cup {NoUnit}
  BY DEF TrackingInit
<1> QED
  BY <1>1, <1>2, <1>3, <1>4, <1>5 DEF TrackingTypeOK

LEMMA TypeNext == TrackingTypeOK /\ [TrackingNext]_tvars => TrackingTypeOK'
<1> SUFFICES ASSUME TrackingTypeOK, [TrackingNext]_tvars
             PROVE  TrackingTypeOK'
  OBVIOUS
<1> USE DEF TrackingTypeOK, Places, Stats, statics, ledger
<1>s. Sample \in Nat /\ MaxUnits \in Nat
  BY SampleType, TrackingAssumption DEF TrackingAssumption
<1>1. CASE ResetExecutionStats
  BY <1>1, <1>s DEF ResetExecutionStats, Off, CheckInterval
<1>2. CASE GetExecutionStats
  BY <1>2, <1>s DEF GetExecutionStats
<1>3. CASE StartUnit
  <2>1. unit' \in 0..MaxUnits
    BY <1>3, <1>s DEF StartUnit
  <2>2. place' \in {"host", "drain", "js"}
    BY <1>3, Zenon DEF StartUnit
  <2>3. saved' \in Stats /\ since' \in Nat \cup {Off} /\ draining' \in BOOLEAN
    <3>1. CASE usedRpcCalls
      BY <1>3, <3>1 DEF StartUnit
    <3>2. CASE ~usedRpcCalls
      BY <1>3, <3>2 DEF StartUnit
    <3> QED
      BY <3>1, <3>2
  <2> QED
    BY <1>3, <2>1, <2>2, <2>3 DEF StartUnit
<1>4. CASE StartSettlement
  BY <1>4 DEF StartSettlement
<1>5. CASE DrainEnds
  BY <1>5 DEF DrainEnds
<1>6. CASE ResetEnds
  BY <1>6 DEF ResetEnds
<1>7. CASE SegmentEnds
  BY <1>7, <1>s DEF SegmentEnds, Off
<1>8. CASE Trap
  BY <1>8 DEF Trap
<1>9. ASSUME NEW interrupted \in BOOLEAN, Poll(interrupted)
      PROVE  TrackingTypeOK'
  <2>1. {opcodes, cpu, nextCheck, passed}' \subseteq Nat
    BY <1>9, <1>s DEF Poll, AskHost, PollOpcodes, CheckInterval
  <2>2. polls' \in Nat
    BY <1>9 DEF Poll
  <2> QED
    BY <1>9, <2>1, <2>2 DEF Poll
<1>10. CASE IssueRPC \/ SyncBegins \/ SyncEnds
  BY <1>10 DEF IssueRPC, SyncBegins, SyncEnds
<1>11. CASE Reject
  BY <1>11 DEF Reject
<1>12. CASE TimePasses
  <2>1. since' \in Nat \cup {Off}
    BY <1>12 DEF TimePasses
  <2>2. {spent, held}' \subseteq Nat
    BY <1>12 DEF TimePasses
  <2> QED
    BY <1>12, <2>1, <2>2 DEF TimePasses
<1>13. CASE UNCHANGED tvars
  BY <1>13 DEF tvars
<1> QED
  BY <1>1, <1>2, <1>3, <1>4, <1>5, <1>6, <1>7, <1>8, <1>9, <1>10, <1>11, <1>12, <1>13
     DEF TrackingNext, Inside

\* The statistics, the flags of tracking.rs and the clock keep their types; the
\* count and the time are never taken below zero.
THEOREM TrackingTypeCorrect == TrackingSpec => []TrackingTypeOK
  BY TypeInit, TypeNext, PTL DEF TrackingSpec

-----------------------------------------------------------------------------
(* The inductive invariant. *)

\* A trap ends the life of every export: no JS runs after it.
TrapIsFinal == trapped => place = "host"

\* Until its queue is empty the drain leaves what it saved as it found it.
DrainSaved == place = "drain" => saved = <<opcodes, cpu, since, nextCheck>>

\* JS runs, and makes RPCs that are settled later, only after discard_stale_state has
\* set INITIALIZED.
JSIsInitialized == place # "host" \/ usedRpcCalls => initialized

\* JS went on after a poll only if the poll was counted, and the count was in budget.
PassedInBudget == passed <= polls /\ OpcodeBudgetKept

\* The clock, and the last sample of it, have seen time of the segments only.
ClockIsOfSegments == ~trapped => cpu <= spent + held /\ since <= spent + held

\* A rejection was condemned in this unit or an earlier one.
ForcedInThePast == forcedIn <= unit /\ ForceIsOfUnit

Counted == OpcodesExact /\ EveryPollAsks /\ PassedInBudget

TrackingInv ==
  /\ TrapIsFinal /\ FlagsFollowPlace /\ DrainSaved /\ JSIsInitialized
  /\ Counted
  /\ ClockIsOfSegments
  /\ ForcedInThePast

LEMMA InvInit == TrackingInit => TrackingInv
  BY TrackingAssumption
     DEF TrackingAssumption, TrackingInit, TrackingInv, TrapIsFinal, FlagsFollowPlace,
         DrainSaved, JSIsInitialized, Counted, OpcodesExact, EveryPollAsks, PassedInBudget,
         OpcodeBudgetKept, ClockIsOfSegments, ForcedInThePast, ForceIsOfUnit, Off, NoUnit,
         PollOpcodes, CheckInterval

\* What the place of the guest tells of the flags and the clock.
LEMMA PlacesNext ==
  ASSUME TrackingTypeOK, TrackingInv, [TrackingNext]_tvars
  PROVE  (TrapIsFinal /\ FlagsFollowPlace /\ DrainSaved /\ JSIsInitialized)'
<1> USE DEF TrackingTypeOK, TrackingInv, TrapIsFinal, FlagsFollowPlace, DrainSaved,
            JSIsInitialized, Places, Stats, Off, statics, ledger
<1>1. CASE ResetExecutionStats \/ GetExecutionStats
  BY <1>1 DEF ResetExecutionStats, GetExecutionStats
<1>2. CASE StartUnit
  <2>1. /\ initialized' = TRUE /\ UNCHANGED <<opcodes, cpu, nextCheck, trapped>>
        /\ trapped => place' = "host"
    BY <1>2 DEF StartUnit
  <2>2. CASE trapped
    BY <2>1, <2>2
  <2>3. CASE ~trapped /\ usedRpcCalls
    <3>1. /\ place' = "drain" /\ draining' = TRUE /\ since' = since
          /\ saved' = <<opcodes, cpu, since, nextCheck>>
      BY <1>2, <2>3 DEF StartUnit
    <3>2. since = Off
      BY <1>2, <2>3 DEF StartUnit
    <3> QED
      BY <2>1, <3>1, <3>2
  <2>4. CASE ~trapped /\ ~usedRpcCalls
    <3>1. place' = "js" /\ draining' = draining /\ since' = 0 /\ ~draining
      BY <1>2, <2>4 DEF StartUnit
    <3> QED
      BY <2>1, <3>1
  <2> QED
    BY <2>2, <2>3, <2>4
<1>3. CASE StartSettlement \/ ResetEnds
  <2>1. /\ ~trapped /\ ~trapped' /\ initialized' = initialized /\ draining' = draining
        /\ place' = "js" /\ since' = 0 /\ ~draining
    BY <1>3 DEF StartSettlement, ResetEnds
  <2>2. initialized
    BY <1>3 DEF StartSettlement, ResetEnds
  <2> QED
    BY <2>1, <2>2
<1>4. CASE DrainEnds
  BY <1>4 DEF DrainEnds
<1>9. CASE SegmentEnds
  BY <1>9 DEF SegmentEnds
<1>10. CASE Trap
  BY <1>10 DEF Trap
<1>5. ASSUME NEW interrupted \in BOOLEAN, Poll(interrupted)
      PROVE  (TrapIsFinal /\ FlagsFollowPlace /\ DrainSaved /\ JSIsInitialized)'
  <2>1. place = "drain" => UNCHANGED <<opcodes, cpu, nextCheck>>
    BY <1>5 DEF Poll, RunsJS, Live
  <2> QED
    BY <1>5, <2>1 DEF Poll
<1>6. CASE IssueRPC \/ Reject \/ SyncBegins \/ SyncEnds
  BY <1>6 DEF IssueRPC, Reject, SyncBegins, SyncEnds
<1>7. CASE TimePasses
  BY <1>7 DEF TimePasses
<1>8. CASE UNCHANGED tvars
  BY <1>8 DEF tvars
<1> QED
  BY <1>1, <1>2, <1>3, <1>4, <1>5, <1>6, <1>7, <1>8, <1>9, <1>10 DEF TrackingNext, Inside

\* A poll of live JS adds the same to OPCODE_COUNT as to the history, and asks the
\* host; any other poll changes neither.
LEMMA PollCounts ==
  ASSUME TrackingTypeOK, TrackingInv, NEW interrupted \in BOOLEAN, Poll(interrupted)
  PROVE  Counted'
<1> USE DEF TrackingTypeOK, TrackingInv, TrapIsFinal, FlagsFollowPlace, JSIsInitialized,
            Counted, PollOpcodes, CheckInterval
<1>0. MaxOpcodes \in Nat /\ ~trapped /\ initialized /\ (draining <=> place = "drain")
  BY TrackingAssumption DEF TrackingAssumption, Poll, RunsJS, Live
<1>1. CASE draining \/ force
  <2>1. UNCHANGED <<polls, opcodes, nextCheck, passed>>
    BY <1>0, <1>1 DEF Poll, Live
  <2> QED
    BY <2>1 DEF OpcodesExact, EveryPollAsks, PassedInBudget, OpcodeBudgetKept
<1>2. CASE ~(draining \/ force)
  <2>1. polls' = polls + 1 /\ opcodes' = opcodes + PollOpcodes /\ AskHost(interrupted)
    BY <1>0, <1>2 DEF Poll, RunsJS, AskHost
  <2>2. opcodes' >= nextCheck /\ nextCheck' = opcodes' + CheckInterval
    BY <1>0, <2>1 DEF AskHost, EveryPollAsks
  <2>3. \/ passed' = passed
        \/ passed' = passed + 1 /\ (MaxOpcodes > 0 => opcodes' <= MaxOpcodes)
    BY <1>0, <2>1, <2>2 DEF AskHost, OverBudget
  <2>4. OpcodesExact'
    BY <2>1 DEF OpcodesExact
  <2> QED
    BY <1>0, <2>1, <2>2, <2>3, <2>4
       DEF OpcodesExact, EveryPollAsks, PassedInBudget, OpcodeBudgetKept
<1> QED
  BY <1>1, <1>2

LEMMA CountedNext ==
  ASSUME TrackingTypeOK, TrackingInv, [TrackingNext]_tvars
  PROVE  Counted'
<1> USE DEF Counted, OpcodesExact, EveryPollAsks, PassedInBudget, OpcodeBudgetKept, statics,
            ledger
<1>1. CASE ResetExecutionStats
  BY <1>1, TrackingAssumption
     DEF TrackingAssumption, ResetExecutionStats, PollOpcodes, CheckInterval
<1>2. CASE DrainEnds
  <2>1. UNCHANGED <<opcodes, nextCheck, polls, passed>>
    BY <1>2 DEF DrainEnds, TrackingInv, DrainSaved
  <2> QED
    BY <2>1 DEF TrackingInv
<1>3. ASSUME NEW interrupted \in BOOLEAN, Poll(interrupted)
      PROVE  Counted'
  BY <1>3, PollCounts
<1>4. CASE \/ GetExecutionStats \/ StartUnit \/ StartSettlement
           \/ ResetEnds \/ SegmentEnds \/ Trap \/ IssueRPC \/ Reject \/ SyncBegins
           \/ SyncEnds \/ TimePasses \/ UNCHANGED tvars
  <2>1. UNCHANGED <<opcodes, nextCheck, polls, passed>>
    BY <1>4 DEF GetExecutionStats, StartUnit, StartSettlement, ResetEnds, SegmentEnds, Trap,
       IssueRPC, Reject, SyncBegins, SyncEnds, TimePasses, tvars
  <2> QED
    BY <2>1 DEF TrackingInv
<1> QED
  BY <1>1, <1>2, <1>3, <1>4 DEF TrackingNext, Inside

\* Only time that passes in a segment moves a clock that runs.
LEMMA ClockNext ==
  ASSUME TrackingTypeOK, TrackingInv, [TrackingNext]_tvars
  PROVE  ClockIsOfSegments'
<1> USE DEF TrackingTypeOK, TrackingInv, FlagsFollowPlace, ClockIsOfSegments, Off, Stats,
            statics, ledger
<1>s. Sample \in Nat /\ (~trapped => Sample <= spent + held)
  BY SampleType DEF Sample
<1>1. CASE ResetExecutionStats \/ GetExecutionStats
  BY <1>1, <1>s DEF ResetExecutionStats, GetExecutionStats
<1>2. CASE StartUnit \/ StartSettlement \/ ResetEnds
  BY <1>2 DEF StartUnit, StartSettlement, ResetEnds
<1>3. CASE DrainEnds
  BY <1>3 DEF DrainEnds, DrainSaved
<1>4. CASE SegmentEnds \/ Trap
  BY <1>4, <1>s DEF SegmentEnds, Trap
<1>5. ASSUME NEW interrupted \in BOOLEAN, Poll(interrupted)
      PROVE  ClockIsOfSegments'
  <2>1. cpu' \in {cpu, Sample}
    BY <1>5 DEF Poll, AskHost
  <2> QED
    BY <1>5, <1>s, <2>1 DEF Poll
<1>6. CASE IssueRPC \/ Reject \/ SyncBegins \/ SyncEnds
  BY <1>6 DEF IssueRPC, Reject, SyncBegins, SyncEnds
<1>7. CASE TimePasses
  BY <1>7 DEF TimePasses
<1>8. CASE UNCHANGED tvars
  BY <1>8 DEF tvars
<1> QED
  BY <1>1, <1>2, <1>3, <1>4, <1>5, <1>6, <1>7, <1>8 DEF TrackingNext, Inside

LEMMA ForcedNext ==
  ASSUME TrackingTypeOK, TrackingInv, [TrackingNext]_tvars
  PROVE  ForcedInThePast'
<1> USE DEF TrackingTypeOK, TrackingInv, ForcedInThePast, ForceIsOfUnit, NoUnit, statics,
            ledger
<1>1. CASE StartUnit
  BY <1>1 DEF StartUnit
<1>2. CASE Reject
  BY <1>2 DEF Reject
<1>3. CASE \/ ResetExecutionStats \/ GetExecutionStats \/ StartSettlement \/ DrainEnds
           \/ ResetEnds \/ SegmentEnds \/ Trap \/ IssueRPC \/ SyncBegins \/ SyncEnds
           \/ TimePasses \/ (\E interrupted \in BOOLEAN : Poll(interrupted))
           \/ UNCHANGED tvars
  <2>1. UNCHANGED <<unit, force, forcedIn>>
    BY <1>3 DEF ResetExecutionStats, GetExecutionStats, StartSettlement, DrainEnds,
       ResetEnds, SegmentEnds, Trap, IssueRPC, SyncBegins, SyncEnds, TimePasses, Poll, tvars
  <2> QED
    BY <2>1
<1> QED
  BY <1>1, <1>2, <1>3 DEF TrackingNext, Inside

LEMMA TrackingInductive == TrackingSpec => []TrackingInv
<1>1. TrackingTypeOK /\ TrackingInv /\ [TrackingNext]_tvars => TrackingInv'
  BY PlacesNext, CountedNext, ClockNext, ForcedNext DEF TrackingInv
<1> QED
  BY <1>1, InvInit, TrackingTypeCorrect, PTL DEF TrackingSpec

-----------------------------------------------------------------------------
(* The properties. *)

\* OPCODE_COUNT is 10000 for each poll of live JS since the statistics were reset:
\* drains, settlements and forced stops neither add to it nor take from it.
THEOREM OpcodesExactHolds == TrackingSpec => []OpcodesExact
<1>1. TrackingInv => OpcodesExact
  BY DEF TrackingInv, Counted
<1> QED
  BY <1>1, TrackingInductive, PTL

\* No script goes on after a poll beyond the callback's budget of opcodes, over any
\* number of units and settlements since the statistics were reset.
THEOREM OpcodeBudgetKeptHolds == TrackingSpec => []OpcodeBudgetKept
<1>1. TrackingInv => OpcodeBudgetKept
  BY DEF TrackingInv, Counted, PassedInBudget
<1> QED
  BY <1>1, TrackingInductive, PTL

\* The time the guest reports never has time in it that the host spent between the
\* segments, or that stale jobs took in the drain, unless a trap left the clock on.
THEOREM NotChargedForWaitingHolds == TrackingSpec => []NotChargedForWaiting
<1>1. TrackingInv => NotChargedForWaiting
  BY DEF TrackingInv, ClockIsOfSegments, NotChargedForWaiting, Sample
<1> QED
  BY <1>1, TrackingInductive, PTL

\* A rejection that the handler condemns stops its own unit, its settlements
\* included, and no later one.
THEOREM ForceIsOfUnitHolds == TrackingSpec => []ForceIsOfUnit
<1>1. TrackingInv => ForceIsOfUnit
  BY DEF TrackingInv, ForcedInThePast
<1> QED
  BY <1>1, TrackingInductive, PTL
=============================================================================
