--------------------------- MODULE JsonModeProofs ---------------------------
(***************************************************************************)
(* Proofs about JsonMode for any number of lines and Forward calls and any *)
(* peer.  Three facts make the safety properties inductive: the ids on the *)
(* wire are the numbers of the calls (Wiring), an answer keeps the id of   *)
(* its request wherever it is on its way (AnswersKeepTheirID), and every   *)
(* line that was sent is in stdin, in a hand, or answered (Account).       *)
(* The refinement of JsonContract needs two more: an answer is on its way  *)
(* only after the peer gave it (Causal), and a Forward leaves without one  *)
(* only when its command is over (Outcomes).  That nobody waits in a       *)
(* circle needs the places of an answer: one that is waited for is in one  *)
(* of them (Delivery), a polite peer's in no two (Single).                 *)
(***************************************************************************)
EXTENDS JsonMode, FiniteSetTheorems, TLAPS

-----------------------------------------------------------------------------
(* Counting the command lines of a sequence of lines. *)

IsCommand(line) == line.kind \in {"command", "bad"}
CommandsIn(lines) == {i \in 1..Len(lines) : IsCommand(lines[i])}
Count(lines) == Cardinality(CommandsIn(lines))

LEMMA CountType ==
  ASSUME NEW lines \in Seq(Lines)
  PROVE  IsFiniteSet(CommandsIn(lines)) /\ Count(lines) \in Nat
<1>1. IsFiniteSet(1..Len(lines))
  BY FS_Interval
<1>2. CommandsIn(lines) \in SUBSET (1..Len(lines))
  BY DEF CommandsIn
<1> QED
  BY <1>1, <1>2, FS_Subset, FS_CardinalityType DEF Count

LEMMA CountEmpty == Count(<< >>) = 0
<1>1. CommandsIn(<< >>) = {}
  BY DEF CommandsIn
<1> QED
  BY <1>1, FS_EmptySet DEF Count

LEMMA CountAppend ==
  ASSUME NEW lines \in Seq(Lines), NEW line \in Lines
  PROVE  Count(Append(lines, line)) = Count(lines) + (IF IsCommand(line) THEN 1 ELSE 0)
<1> DEFINE n == Len(lines) + 1
<1>0. IsFiniteSet(CommandsIn(lines)) /\ n \notin CommandsIn(lines) /\ Count(lines) \in Nat
  BY CountType DEF CommandsIn
<1>1. CASE IsCommand(line)
  <2>1. CommandsIn(Append(lines, line)) = CommandsIn(lines) \cup {n}
    BY <1>1 DEF CommandsIn
  <2> QED
    BY <1>0, <1>1, <2>1, FS_AddElement DEF Count
<1>2. CASE ~IsCommand(line)
  <2>1. CommandsIn(Append(lines, line)) = CommandsIn(lines)
    BY <1>2 DEF CommandsIn
  <2> QED
    BY <1>0, <1>2, <2>1 DEF Count
<1> QED
  BY <1>1, <1>2

LEMMA CountTail ==
  ASSUME NEW lines \in Seq(Lines), lines # << >>
  PROVE  Count(lines) = Count(Tail(lines)) + (IF IsCommand(Head(lines)) THEN 1 ELSE 0)
<1> DEFINE S == CommandsIn(lines) \ {1}
           T == CommandsIn(Tail(lines))
           shift == [i \in S |-> i - 1]
<1>1. /\ Tail(lines) \in Seq(Lines) /\ Len(Tail(lines)) = Len(lines) - 1
      /\ \A i \in 1..(Len(lines) - 1) : Tail(lines)[i] = lines[i + 1]
      /\ Head(lines) = lines[1] /\ Len(lines) \in Nat /\ Len(lines) > 0
  OBVIOUS
<1>2. IsFiniteSet(CommandsIn(lines)) /\ Count(lines) \in Nat
  BY CountType
<1>3. IsFiniteSet(S)
  BY <1>2, FS_RemoveElement
<1>4. shift \in [S -> T]
  BY <1>1 DEF CommandsIn
<1>5. \A i, j \in S : shift[i] = shift[j] => i = j
  BY DEF CommandsIn
<1>6. \A t \in T : t + 1 \in S /\ shift[t + 1] = t
  BY <1>1 DEF CommandsIn
<1>7. shift \in Surjection(S, T) /\ shift \in Injection(S, T)
  BY <1>4, <1>5, <1>6 DEF Surjection, Injection, IsInjective
<1>8. Cardinality(T) = Cardinality(S)
  BY <1>3, <1>7, FS_Surjection
<1>9. Cardinality(S) = IF 1 \in CommandsIn(lines) THEN Count(lines) - 1 ELSE Count(lines)
  BY <1>2, FS_RemoveElement DEF Count
<1>10. 1 \in CommandsIn(lines) <=> IsCommand(Head(lines))
  BY <1>1 DEF CommandsIn
<1> QED
  BY <1>2, <1>8, <1>9, <1>10 DEF Count

-----------------------------------------------------------------------------
(* The inductive invariant. *)

Live == {"registered", "waiting", "leaving"}

\* Calls begin in order, each with its number on the wire, and the map has the id of
\* a call exactly while it is live.
Wiring ==
  /\ \A f \in Forwards : fwd[f] # "unused" <=> f <= nextID
  /\ \A f \in Forwards : f <= nextID => wire[f] = f
  /\ \A f \in Forwards : pending[f] = IF fwd[f] \in Live THEN f ELSE None

OwnLine(line) == line.to = line.id /\ line.id \in Forwards

\* In stdin, in the reader's hand, in a channel and at the caller.
AnswersKeepTheirID ==
  /\ \A i \in 1..Len(stdin) : stdin[i].kind = "response" => OwnLine(stdin[i])
  /\ reader \in {"lookup", "deliver"} => OwnLine(held)
  /\ reader = "deliver" => target = held.id
  /\ \A f \in Forwards : chan[f] \in {None, f}
  /\ OwnAnswer

InHand == (IF main = "exec" THEN 1 ELSE 0)
          + (IF reader \in {"sendCommand", "sendError"} THEN 1 ELSE 0)

\* Nothing the peer sent is lost, and the end comes after all of it.
Account ==
  /\ sent = printed + InHand + Count(stdin)
  /\ reader = "done" => eof /\ stdin = << >>
  /\ main = "exited" => reader = "done"

JInv == TypeOK /\ Wiring /\ AnswersKeepTheirID /\ Account

LEMMA JInit == Init => JInv
<1> SUFFICES ASSUME Init PROVE JInv
  OBVIOUS
<1>0. NoLine \in Lines /\ None \in 0..MaxForwards /\ 0 \in 0..MaxLines
  BY JsonAssumption DEF JsonAssumption, NoLine, Line, Lines, None
<1>1. TypeOK
  <2>1. /\ sent \in 0..MaxLines /\ printed \in 0..sent /\ nextID \in 0..MaxForwards
        /\ cancelled \subseteq 1..MaxLines
    BY JsonAssumption DEF JsonAssumption, Init
  <2>2. /\ wire \in [Forwards -> 0..MaxForwards] /\ cmd \in [Forwards -> 0..MaxLines]
        /\ answered \in [Forwards -> Nat] /\ fwd \in [Forwards -> ForwardStates]
        /\ pending \in [1..MaxForwards -> Forwards \cup {None}]
        /\ chan \in [Forwards -> Forwards \cup {None}]
        /\ got \in [Forwards -> Forwards \cup {None}]
    BY <1>0 DEF Init, ForwardStates, None
  <2>3. stdin \in Seq(Lines) /\ held \in Lines /\ target \in Forwards \cup {None}
    BY <1>0 DEF Init
  <2>4. /\ eof \in BOOLEAN /\ polite \in BOOLEAN /\ reader \in ReaderStates
        /\ main \in {"select", "exec", "exited"}
    BY DEF Init, ReaderStates
  <2> QED
    BY <2>1, <2>2, <2>3, <2>4 DEF TypeOK
<1>2. Wiring /\ AnswersKeepTheirID
  BY JsonAssumption
     DEF JsonAssumption, Init, Wiring, AnswersKeepTheirID, OwnAnswer, Forwards, None, Live
<1>3. Account
  BY CountEmpty DEF Init, Account, InHand
<1> QED
  BY <1>1, <1>2, <1>3 DEF JInv

-----------------------------------------------------------------------------
(* The steps of the peer and of the reader. *)

LEMMA PeerLineStep ==
  ASSUME JInv, NEW kind \in {"command", "bad"}, PeerLine(kind)
  PROVE  JInv'
<1> DEFINE line == Line(kind, None, None)
<1>1. line \in Lines /\ IsCommand(line) /\ line.kind # "response"
  BY JsonAssumption DEF JsonAssumption, Line, Lines, None, IsCommand
<1>2. stdin \in Seq(Lines) /\ stdin' = Append(stdin, line)
  BY DEF JInv, TypeOK, PeerLine
<1>3. TypeOK'
  <2>1. stdin' \in Seq(Lines)
    BY <1>1, <1>2
  <2>2. sent' \in 0..MaxLines /\ printed' \in 0..sent'
    BY JsonAssumption DEF JsonAssumption, JInv, TypeOK, PeerLine
  <2> QED
    BY <2>1, <2>2
       DEF JInv, TypeOK, PeerLine, readerVars, forwardVars
<1>4. Wiring'
  BY DEF JInv, Wiring, PeerLine, forwardVars
<1>5. AnswersKeepTheirID'
  <2>1. \A i \in 1..Len(stdin') : stdin'[i].kind = "response" => OwnLine(stdin'[i])
    BY <1>1, <1>2 DEF JInv, AnswersKeepTheirID, OwnLine
  <2> QED
    BY <2>1 DEF JInv, AnswersKeepTheirID, OwnLine, OwnAnswer, PeerLine, readerVars, forwardVars
<1>6. Account'
  <2>1. Count(stdin') = Count(stdin) + 1 /\ Count(stdin) \in Nat
    BY <1>1, <1>2, CountAppend, CountType
  <2>2. InHand' = InHand /\ sent' = sent + 1 /\ printed' = printed
    BY DEF PeerLine, InHand, readerVars
  <2>3. reader' # "done"
    BY DEF JInv, Account, PeerLine, readerVars
  <2> QED
    BY <2>1, <2>2, <2>3 DEF JInv, TypeOK, Account, InHand, PeerLine, readerVars
<1> QED
  BY <1>3, <1>4, <1>5, <1>6 DEF JInv

LEMMA PeerRespondsStep ==
  ASSUME JInv, NEW f \in Forwards, PeerResponds(f)
  PROVE  JInv'
<1> DEFINE line == Line("response", wire[f], f)
<1>0. wire[f] = f
  BY DEF JInv, TypeOK, Wiring, PeerResponds
<1>1. line \in Lines /\ ~IsCommand(line) /\ OwnLine(line)
  BY <1>0, JsonAssumption DEF JsonAssumption, Line, Lines, Forwards, IsCommand, OwnLine
<1>2. stdin \in Seq(Lines) /\ stdin' = Append(stdin, line)
  BY DEF JInv, TypeOK, PeerResponds
<1>3. TypeOK'
  <2>1. stdin' \in Seq(Lines)
    BY <1>1, <1>2
  <2>2. answered' \in [Forwards -> Nat] /\ polite' \in BOOLEAN
    BY DEF JInv, TypeOK, PeerResponds
  <2> QED
    BY <2>1, <2>2 DEF JInv, TypeOK, PeerResponds, readerVars, forwardVars
<1>4. Wiring'
  BY DEF JInv, Wiring, PeerResponds, forwardVars
<1>5. AnswersKeepTheirID'
  <2>1. \A i \in 1..Len(stdin') : stdin'[i].kind = "response" => OwnLine(stdin'[i])
    BY <1>1, <1>2 DEF JInv, AnswersKeepTheirID, OwnLine
  <2> QED
    BY <2>1
       DEF JInv, AnswersKeepTheirID, OwnLine, OwnAnswer, PeerResponds, readerVars, forwardVars
<1>6. Account'
  <2>1. Count(stdin') = Count(stdin) /\ Count(stdin) \in Nat
    BY <1>1, <1>2, CountAppend, CountType
  <2>2. reader' # "done"
    BY DEF JInv, Account, PeerResponds, readerVars
  <2> QED
    BY <2>1, <2>2 DEF JInv, TypeOK, Account, InHand, PeerResponds, readerVars
<1> QED
  BY <1>3, <1>4, <1>5, <1>6 DEF JInv

LEMMA ReaderScansStep ==
  ASSUME JInv, ReaderScans
  PROVE  JInv'
<1>1. /\ stdin \in Seq(Lines) /\ stdin # << >> /\ stdin' = Tail(stdin)
      /\ Head(stdin) \in Lines /\ Head(stdin) = stdin[1] /\ stdin' \in Seq(Lines)
      /\ Len(stdin') = Len(stdin) - 1 /\ Len(stdin) \in Nat /\ Len(stdin) > 0
      /\ \A i \in 1..Len(stdin') : stdin'[i] = stdin[i + 1]
  BY DEF JInv, TypeOK, ReaderScans
<1>2. TypeOK'
  <2>1. reader' \in ReaderStates /\ held' \in Lines
    BY <1>1 DEF JInv, TypeOK, ReaderScans, ReaderStates
  <2> QED
    BY <1>1, <2>1 DEF JInv, TypeOK, ReaderScans, peerVars, forwardVars
<1>3. Wiring'
  BY DEF JInv, Wiring, ReaderScans, forwardVars
<1>4. AnswersKeepTheirID'
  <2>1. \A i \in 1..Len(stdin') : stdin'[i].kind = "response" => OwnLine(stdin'[i])
    BY <1>1 DEF JInv, AnswersKeepTheirID, OwnLine
  <2>2. reader' # "deliver" /\ (reader' = "lookup" => OwnLine(held'))
    BY <1>1 DEF JInv, AnswersKeepTheirID, OwnLine, ReaderScans
  <2> QED
    BY <2>1, <2>2 DEF JInv, AnswersKeepTheirID, OwnLine, OwnAnswer, ReaderScans, forwardVars
<1>5. Account'
  <2>1. Count(stdin) = Count(stdin') + (IF IsCommand(Head(stdin)) THEN 1 ELSE 0)
    BY <1>1, CountTail
  <2>2. Count(stdin') \in Nat
    BY <1>1, CountType
  <2>3. reader = "scan" /\ main' = main /\ reader' # "done" /\ main # "exited"
    BY DEF JInv, Account, ReaderScans
  <2>4. InHand' = InHand + (IF IsCommand(Head(stdin)) THEN 1 ELSE 0)
    BY <2>3 DEF ReaderScans, InHand, IsCommand
  <2>5. UNCHANGED <<sent, printed>> /\ InHand \in {0, 1} /\ printed \in Nat
    BY <2>3 DEF JInv, TypeOK, ReaderScans, peerVars, InHand
  <2>6. sent = printed + InHand + Count(stdin)
    BY DEF JInv, Account
  <2> QED
    BY <2>1, <2>2, <2>3, <2>4, <2>5, <2>6 DEF Account
<1> QED
  BY <1>2, <1>3, <1>4, <1>5 DEF JInv

LEMMA ReaderEndsStep ==
  ASSUME JInv, ReaderEnds
  PROVE  JInv'
<1>1. TypeOK'
  BY DEF JInv, TypeOK, ReaderEnds, ReaderStates, peerVars, forwardVars
<1>2. Wiring' /\ AnswersKeepTheirID'
  BY DEF JInv, Wiring, AnswersKeepTheirID, OwnLine, OwnAnswer, ReaderEnds, forwardVars
<1>3. Account'
  BY DEF JInv, Account, InHand, ReaderEnds, peerVars
<1> QED
  BY <1>1, <1>2, <1>3 DEF JInv

\* Deliver: the response goes to the Forward that its id names, which is the one
\* it answers, or to nobody.
LEMMA DeliverStep ==
  ASSUME JInv, DeliverLookup \/ DeliverSend
  PROVE  JInv'
<1>1. CASE DeliverLookup
  <2>1. /\ held.id \in Forwards /\ held.to = held.id
        /\ pending[held.id] \in {None, held.id} /\ None \notin Forwards
    BY <1>1 DEF JInv, AnswersKeepTheirID, OwnLine, Wiring, DeliverLookup, Forwards, None
  <2>2. TypeOK'
    <3>1. reader' \in ReaderStates /\ held' \in Lines /\ target' \in Forwards \cup {None}
      BY <1>1, <2>1, JsonAssumption
         DEF JInv, TypeOK, DeliverLookup, ReaderStates, NoLine, Line, Lines, None,
             JsonAssumption
    <3> QED
      BY <1>1, <3>1 DEF JInv, TypeOK, DeliverLookup, peerVars, forwardVars
  <2>3. AnswersKeepTheirID'
    BY <1>1, <2>1
       DEF JInv, AnswersKeepTheirID, OwnLine, OwnAnswer, DeliverLookup, forwardVars
  <2>4. Wiring' /\ Account'
    BY <1>1 DEF JInv, Wiring, Account, InHand, DeliverLookup, peerVars, forwardVars
  <2> QED
    BY <2>2, <2>3, <2>4 DEF JInv
<1>2. CASE DeliverSend
  <2>1. held.id \in Forwards /\ held.to = held.id /\ target = held.id
    BY <1>2 DEF JInv, AnswersKeepTheirID, OwnLine, DeliverSend
  <2>2. TypeOK'
    <3>1. /\ reader' \in ReaderStates /\ held' \in Lines /\ target' \in Forwards \cup {None}
          /\ chan' \in [Forwards -> Forwards \cup {None}]
      BY <1>2, <2>1, JsonAssumption
         DEF JInv, TypeOK, DeliverSend, ReaderStates, NoLine, Line, Lines, None,
             JsonAssumption
    <3> QED
      BY <1>2, <3>1 DEF JInv, TypeOK, DeliverSend, peerVars, forwardVars
  <2>3. AnswersKeepTheirID'
    <3>1. \A f \in Forwards : chan'[f] \in {None, f}
      BY <1>2, <2>1 DEF JInv, TypeOK, AnswersKeepTheirID, DeliverSend
    <3> QED
      BY <1>2, <3>1 DEF JInv, AnswersKeepTheirID, OwnLine, OwnAnswer, DeliverSend, forwardVars
  <2>4. Wiring' /\ Account'
    BY <1>2 DEF JInv, Wiring, Account, InHand, DeliverSend, peerVars, forwardVars
  <2> QED
    BY <2>2, <2>3, <2>4 DEF JInv
<1> QED
  BY <1>1, <1>2

-----------------------------------------------------------------------------
(* The steps of the main goroutine. *)

\* What the account says to the main goroutine: a line in somebody's hand is not
\* answered yet.
LEMMA HandIsOwed ==
  ASSUME JInv
  PROVE  /\ printed \in Nat /\ sent \in Nat /\ MaxLines \in Nat
         /\ printed <= sent /\ sent <= MaxLines
         /\ main = "exec" \/ reader = "sendError" => printed + 1 <= sent
<1>1. Count(stdin) \in Nat
  BY CountType DEF JInv, TypeOK
<1> QED
  BY <1>1, JsonAssumption DEF JInv, TypeOK, Account, InHand, JsonAssumption

LEMMA TakeStep ==
  ASSUME JInv, TakeError \/ TakeCommand \/ MainExits
  PROVE  JInv'
<1>1. CASE TakeError
  <2>1. printed' \in 0..sent'
    BY <1>1, HandIsOwed DEF TakeError, peerVars
  <2>2. TypeOK'
    BY <1>1, <2>1 DEF JInv, TypeOK, TakeError, ReaderStates, peerVars, forwardVars
  <2>3. Account'
    BY <1>1, HandIsOwed DEF JInv, Account, InHand, TakeError, peerVars
  <2>4. Wiring' /\ AnswersKeepTheirID'
    BY <1>1 DEF JInv, Wiring, AnswersKeepTheirID, OwnLine, OwnAnswer, TakeError, forwardVars
  <2> QED
    BY <2>2, <2>3, <2>4 DEF JInv
<1>2. CASE TakeCommand
  <2>1. TypeOK'
    BY <1>2 DEF JInv, TypeOK, TakeCommand, ReaderStates, peerVars, forwardVars
  <2>2. Account'
    BY <1>2 DEF JInv, Account, InHand, TakeCommand, peerVars
  <2>3. Wiring' /\ AnswersKeepTheirID'
    BY <1>2 DEF JInv, Wiring, AnswersKeepTheirID, OwnLine, OwnAnswer, TakeCommand, forwardVars
  <2> QED
    BY <2>1, <2>2, <2>3 DEF JInv
<1>3. CASE MainExits
  <2>1. TypeOK'
    BY <1>3 DEF JInv, TypeOK, MainExits, peerVars, readerVars, forwardVars
  <2>2. Account'
    BY <1>3 DEF JInv, Account, InHand, MainExits, peerVars, readerVars
  <2>3. Wiring' /\ AnswersKeepTheirID'
    BY <1>3
       DEF JInv, Wiring, AnswersKeepTheirID, OwnLine, OwnAnswer, MainExits, readerVars,
           forwardVars
  <2> QED
    BY <2>1, <2>2, <2>3 DEF JInv
<1> QED
  BY <1>1, <1>2, <1>3

LEMMA ExecEndsStep ==
  ASSUME JInv, main = "exec", ExecEnds
  PROVE  JInv'
<1>1. printed' \in 0..sent' /\ cancelled' \subseteq 1..MaxLines
  <2>1. Current \in 1..MaxLines /\ Current \in 0..sent
    BY HandIsOwed DEF Current
  <2> QED
    BY <2>1 DEF JInv, TypeOK, ExecEnds, Current, peerVars
<1>2. TypeOK'
  BY <1>1 DEF JInv, TypeOK, ExecEnds, peerVars, readerVars, forwardVars
<1>3. Account'
  BY HandIsOwed DEF JInv, Account, InHand, ExecEnds, peerVars, readerVars
<1>4. Wiring' /\ AnswersKeepTheirID'
  BY DEF JInv, Wiring, AnswersKeepTheirID, OwnLine, OwnAnswer, ExecEnds, readerVars,
     forwardVars
<1> QED
  BY <1>2, <1>3, <1>4 DEF JInv

-----------------------------------------------------------------------------
(* The steps of the Forward calls. *)

\* The parts of the invariant that no Forward call touches.
LEMMA ForwardAside ==
  ASSUME JInv,
         UNCHANGED <<stdin, eof, sent, printed, reader, held, target, main>>,
         \A f \in Forwards : chan'[f] \in {None, f},
         OwnAnswer'
  PROVE  AnswersKeepTheirID' /\ Account'
  BY DEF JInv, AnswersKeepTheirID, OwnLine, Account, InHand

LEMMA ForwardBeginsStep ==
  ASSUME JInv, NEW f \in Forwards, ForwardBegins(f)
  PROVE  JInv'
<1>1. f = newID /\ nextID \in Nat /\ f \in 1..MaxForwards
  <2>1. nextID \in 0..MaxForwards /\ MaxForwards \in Nat
    BY JsonAssumption DEF JsonAssumption, JInv, TypeOK
  <2>2. f > nextID
    BY <2>1 DEF JInv, Wiring, ForwardBegins, Forwards
  <2>3. ~(f > nextID + 1)
    <3> SUFFICES ASSUME f > nextID + 1 PROVE FALSE
      OBVIOUS
    <3>1. nextID + 1 \in Forwards /\ nextID + 1 \in 1..(f - 1)
      BY <2>1 DEF Forwards
    <3>2. fwd[nextID + 1] # "unused"
      BY <3>1 DEF ForwardBegins
    <3> QED
      BY <2>1, <3>1, <3>2 DEF JInv, Wiring
  <2> QED
    BY <2>1, <2>2, <2>3 DEF newID, Forwards
<1>2. TypeOK'
  <2>1. Current \in 0..MaxLines
    BY HandIsOwed DEF ForwardBegins, Current
  <2>2. /\ nextID' \in 0..MaxForwards
        /\ fwd' \in [Forwards -> ForwardStates]
        /\ wire' \in [Forwards -> 0..MaxForwards]
        /\ cmd' \in [Forwards -> 0..MaxLines]
        /\ pending' \in [1..MaxForwards -> Forwards \cup {None}]
    BY <1>1, <2>1 DEF JInv, TypeOK, ForwardBegins, newID, ForwardStates
  <2> QED
    BY <2>2 DEF JInv, TypeOK, ForwardBegins, peerVars, readerVars
<1>3. Wiring'
  <2>1. \A g \in Forwards : fwd'[g] = IF g = f THEN "registered" ELSE fwd[g]
    BY DEF JInv, TypeOK, ForwardBegins
  <2>2. \A g \in Forwards : /\ wire'[g] = (IF g = f THEN f ELSE wire[g])
                            /\ pending'[g] = (IF g = f THEN f ELSE pending[g])
    BY <1>1 DEF JInv, TypeOK, ForwardBegins, Forwards
  <2>3. nextID' = f /\ \A g \in Forwards : g <= f <=> g <= nextID \/ g = f
    BY <1>1 DEF ForwardBegins, newID, Forwards
  <2> QED
    BY <2>1, <2>2, <2>3 DEF JInv, Wiring, Live
<1>4. AnswersKeepTheirID' /\ Account'
  <2>1. UNCHANGED <<stdin, eof, sent, printed, reader, held, target, main, chan, got>>
    BY DEF ForwardBegins, peerVars, readerVars
  <2> QED
    BY <2>1, ForwardAside DEF JInv, AnswersKeepTheirID, OwnAnswer
<1> QED
  BY <1>2, <1>3, <1>4 DEF JInv

LEMMA ForwardGoesOnStep ==
  ASSUME JInv, NEW f \in Forwards, ForwardSteps(f)
  PROVE  JInv'
<1>1. UNCHANGED <<stdin, peerVars, printed, readerVars, main, nextID, wire, cmd, cancelled>>
  BY DEF ForwardSteps, ForwardWrites, ForwardReceives, ForwardAborts, ForwardLeaves
<1>2. UNCHANGED <<stdin, eof, sent, answered, polite, printed, reader, held, target, main>>
  BY <1>1 DEF peerVars, readerVars
<1>3. /\ chan' \in [Forwards -> Forwards \cup {None}]
      /\ got' \in [Forwards -> Forwards \cup {None}]
      /\ \A g \in Forwards : chan'[g] \in {None, g} /\ got'[g] \in {None, g}
  <2>1. CASE ForwardReceives(f)
    BY <2>1 DEF ForwardReceives, JInv, TypeOK, AnswersKeepTheirID, OwnAnswer
  <2>2. CASE ForwardWrites(f) \/ ForwardAborts(f) \/ ForwardLeaves(f)
    <3>1. UNCHANGED <<chan, got>>
      BY <2>2 DEF ForwardWrites, ForwardAborts, ForwardLeaves
    <3> QED
      BY <3>1 DEF JInv, TypeOK, AnswersKeepTheirID, OwnAnswer
  <2> QED
    BY <2>1, <2>2 DEF ForwardSteps
<1>4. fwd[f] # "unused" /\ wire[f] = f
  BY DEF ForwardSteps, ForwardWrites, ForwardReceives, ForwardAborts, ForwardLeaves, JInv,
     Wiring
<1>5. /\ fwd' \in [Forwards -> ForwardStates]
      /\ pending' \in [1..MaxForwards -> Forwards \cup {None}]
      /\ Wiring'
  <2>1. CASE ForwardLeaves(f)
    <3>1. /\ fwd' = [fwd EXCEPT ![f] = "gone"]
          /\ pending' = [pending EXCEPT ![f] = None]
      BY <1>4, <2>1 DEF ForwardLeaves, deletePending
    <3> QED
      BY <1>1, <1>4, <3>1 DEF JInv, TypeOK, Wiring, ForwardStates, Live, Forwards
  <2>2. CASE ForwardWrites(f) \/ ForwardReceives(f) \/ ForwardAborts(f)
    <3>1. pending' = pending /\ fwd[f] \in Live
      BY <2>2 DEF ForwardWrites, ForwardReceives, ForwardAborts, Live
    <3>2. PICK s \in Live : fwd' = [fwd EXCEPT ![f] = s]
      BY <2>2 DEF ForwardWrites, ForwardReceives, ForwardAborts, Live
    <3> QED
      BY <1>1, <1>4, <3>1, <3>2 DEF JInv, TypeOK, Wiring, ForwardStates, Live
  <2> QED
    BY <2>1, <2>2 DEF ForwardSteps
<1>6. TypeOK'
  BY <1>1, <1>2, <1>3, <1>5 DEF JInv, TypeOK
<1>7. AnswersKeepTheirID' /\ Account'
  BY <1>2, <1>3, ForwardAside DEF OwnAnswer
<1> QED
  BY <1>5, <1>6, <1>7 DEF JInv

-----------------------------------------------------------------------------
(* The theorems. *)

LEMMA JInductive == Spec => []JInv
<1>1. JInv /\ [Next]_vars => JInv'
  <2> SUFFICES ASSUME JInv, [Next]_vars PROVE JInv'
    OBVIOUS
  <2>1. CASE \E kind \in {"command", "bad"} : PeerLine(kind)
    BY <2>1, PeerLineStep
  <2>2. CASE \E f \in Forwards : PeerResponds(f)
    BY <2>2, PeerRespondsStep
  <2>3. CASE PeerCloses
    <3>1. TypeOK'
      BY <2>3 DEF PeerCloses, JInv, TypeOK, readerVars, forwardVars
    <3>2. Wiring' /\ AnswersKeepTheirID' /\ Account'
      BY <2>3
         DEF PeerCloses, JInv, Wiring, AnswersKeepTheirID, OwnLine, OwnAnswer, Account,
             InHand, readerVars, forwardVars
    <3> QED
      BY <3>1, <3>2 DEF JInv
  <2>4. CASE Reader
    BY <2>4, ReaderScansStep, ReaderEndsStep, DeliverStep DEF Reader
  <2>5. CASE Main \/ ExecExitsEarly
    BY <2>5, TakeStep, ExecEndsStep DEF Main, ExecFinishes, ExecExitsEarly
  <2>6. CASE \E f \in Forwards : ForwardBegins(f) \/ ForwardSteps(f)
    BY <2>6, ForwardBeginsStep, ForwardGoesOnStep
  <2>7. CASE Exited \/ UNCHANGED vars
    <3>1. UNCHANGED vars
      BY <2>7 DEF Exited
    <3>2. TypeOK'
      BY <3>1 DEF vars, peerVars, readerVars, forwardVars, JInv, TypeOK
    <3>3. Wiring' /\ AnswersKeepTheirID' /\ Account'
      BY <3>1
         DEF vars, peerVars, readerVars, forwardVars, JInv, Wiring, AnswersKeepTheirID,
             OwnLine, OwnAnswer, Account, InHand
    <3> QED
      BY <3>2, <3>3 DEF JInv
  <2> QED
    BY <2>1, <2>2, <2>3, <2>4, <2>5, <2>6, <2>7 DEF Next
<1> QED
  BY <1>1, JInit, PTL DEF Spec

\* The variables of JSON mode keep their types; printed never overtakes sent: no line
\* of input is answered twice, and no answer is printed without one.
THEOREM JsonTypeCorrect == Spec => []TypeOK
<1>1. JInv => TypeOK
  BY DEF JInv
<1> QED
  BY <1>1, JInductive, PTL

\* A Forward returns the answer to its own request or none, whatever the peer sends:
\* late, early, twice, or to a request that was abandoned.
THEOREM OwnAnswerHolds == Spec => []OwnAnswer
<1>1. JInv => OwnAnswer
  BY DEF JInv, AnswersKeepTheirID
<1> QED
  BY <1>1, JInductive, PTL

\* The forwarder's map has an entry for each Forward that has not returned and no other.
THEOREM PendingIsLiveHolds == Spec => []PendingIsLive
<1>1. JInv => PendingIsLive
  BY DEF JInv, Wiring, PendingIsLive, Live, Forwards, None
<1> QED
  BY <1>1, JInductive, PTL

\* The program exits only after every line it was sent has been answered.
THEOREM DrainedAtExitHolds == Spec => []DrainedAtExit
<1>1. JInv => DrainedAtExit
  <2> SUFFICES ASSUME JInv, main = "exited" PROVE printed = sent /\ stdin = << >>
    BY DEF DrainedAtExit
  <2>1. reader = "done" /\ stdin = << >> /\ InHand = 0
    BY DEF JInv, Account, InHand
  <2> QED
    BY <2>1, CountEmpty DEF JInv, TypeOK, Account
<1> QED
  BY <1>1, JInductive, PTL
-----------------------------------------------------------------------------
(* The contract of JSON mode. *)

\* A response is somewhere only after the peer has sent it.
Causal ==
  /\ \A i \in 1..Len(stdin) : stdin[i].kind = "response" => answered[stdin[i].to] > 0
  /\ reader \in {"lookup", "deliver"} => answered[held.to] > 0
  /\ \A f \in Forwards : chan[f] # None => answered[f] > 0

\* A Forward has an answer only once it has left its select, and leaves it without one
\* only when its command is over.
Outcomes ==
  /\ \A f \in Forwards :
       /\ cmd[f] = 0 <=> fwd[f] = "unused"
       /\ fwd[f] \in {"unused", "registered", "waiting"} => got[f] = None
       /\ fwd[f] \in {"leaving", "gone"} => got[f] # None \/ cmd[f] \in cancelled
  /\ cancelled \subseteq 1..printed

LEMMA CausalStep == JInv /\ Causal /\ [Next]_vars => Causal'
<1> SUFFICES ASSUME JInv, Causal, [Next]_vars PROVE Causal'
  OBVIOUS
<1>0. stdin \in Seq(Lines) /\ answered \in [Forwards -> Nat]
  BY DEF JInv, TypeOK
<1>1. CASE \E kind \in {"command", "bad"} : PeerLine(kind)
  <2> PICK kind \in {"command", "bad"} : PeerLine(kind)
    BY <1>1
  <2>1. /\ stdin' = Append(stdin, Line(kind, None, None))
        /\ UNCHANGED <<answered, reader, held, chan>>
    BY DEF PeerLine, readerVars
  <2>2. Line(kind, None, None).kind # "response" /\ Line(kind, None, None) \in Lines
    BY JsonAssumption DEF JsonAssumption, Line, Lines, None
  <2> QED
    BY <1>0, <2>1, <2>2 DEF Causal
<1>2. CASE \E f \in Forwards : PeerResponds(f)
  <2> PICK f \in Forwards : PeerResponds(f)
    BY <1>2
  <2> DEFINE line == Line("response", wire[f], f)
  <2>1. /\ stdin' = Append(stdin, line) /\ answered' = [answered EXCEPT ![f] = @ + 1]
        /\ UNCHANGED <<reader, held, chan>>
    BY DEF PeerResponds, readerVars
  <2>2. line.to = f /\ line \in Lines
    BY JsonAssumption DEF JsonAssumption, JInv, TypeOK, Line, Lines, Forwards
  <2>3. \A g \in Forwards : answered'[g] >= answered[g] /\ answered'[f] > 0
    BY <1>0, <2>1
  <2>4. \A i \in 1..Len(stdin) : stdin[i].kind = "response" => stdin[i].to \in Forwards
    BY DEF JInv, AnswersKeepTheirID, OwnLine
  <2>5. reader \in {"lookup", "deliver"} => held.to \in Forwards
    BY DEF JInv, AnswersKeepTheirID, OwnLine
  <2>6. \A i \in 1..Len(stdin') : stdin'[i].kind = "response" => answered'[stdin'[i].to] > 0
    <3> SUFFICES ASSUME NEW i \in 1..Len(stdin'), stdin'[i].kind = "response"
                 PROVE  answered'[stdin'[i].to] > 0
      OBVIOUS
    <3> HIDE DEF line
    <3>1. CASE i \in 1..Len(stdin)
      <4>1. stdin'[i] = stdin[i]
        BY <1>0, <2>1, <2>2, <3>1
      <4>2. stdin[i].to \in Forwards /\ answered[stdin[i].to] > 0
        BY <2>4, <3>1, <4>1 DEF Causal
      <4> QED
        BY <1>0, <2>3, <4>1, <4>2, <2>1
    <3>2. CASE i = Len(stdin) + 1
      <4>1. stdin'[i] = line
        BY <1>0, <2>1, <2>2, <3>2
      <4> QED
        BY <2>2, <2>3, <4>1
    <3> QED
      BY <1>0, <2>1, <2>2, <3>1, <3>2
  <2>7. \A g \in Forwards : answered[g] > 0 => answered'[g] > 0
    BY <1>0, <2>1
  <2> QED
    BY <2>1, <2>5, <2>6, <2>7 DEF Causal
<1>3. CASE ReaderScans
  <2>1. /\ stdin' = Tail(stdin) /\ stdin # << >> /\ UNCHANGED <<answered, chan>>
        /\ Head(stdin) = stdin[1] /\ Len(stdin') = Len(stdin) - 1
        /\ Len(stdin) \in Nat /\ Len(stdin) > 0
        /\ \A i \in 1..Len(stdin') : stdin'[i] = stdin[i + 1] /\ i + 1 \in 1..Len(stdin)
    BY <1>0, <1>3 DEF ReaderScans, peerVars
  <2>2. reader' \in {"lookup", "deliver"} => held' = stdin[1] /\ stdin[1].kind = "response"
    BY <1>3, <2>1 DEF ReaderScans
  <2>3. 1 \in 1..Len(stdin)
    BY <2>1
  <2> QED
    BY <2>1, <2>2, <2>3 DEF Causal
<1>4. CASE DeliverLookup
  BY <1>4 DEF DeliverLookup, Causal, peerVars
<1>5. CASE DeliverSend
  <2>1. held.to = target /\ answered[held.to] > 0
    BY <1>5 DEF DeliverSend, JInv, AnswersKeepTheirID, OwnLine, Causal
  <2>2. UNCHANGED <<stdin, answered>> /\ reader' = "scan"
        /\ chan' = [chan EXCEPT ![target] = held.to]
    BY <1>5 DEF DeliverSend, peerVars
  <2>3. chan \in [Forwards -> Forwards \cup {None}]
    BY DEF JInv, TypeOK
  <2> QED
    BY <2>1, <2>2, <2>3 DEF Causal
<1>6. CASE \E f \in Forwards : ForwardReceives(f)
  <2>1. /\ UNCHANGED <<stdin, answered, reader, held>>
        /\ \A f \in Forwards : chan'[f] \in {chan[f], None}
    BY <1>6 DEF ForwardReceives, peerVars, readerVars, JInv, TypeOK
  <2> QED
    BY <2>1 DEF Causal
<1>7. CASE UNCHANGED <<stdin, answered, held, chan>>
           /\ (reader' \in {"lookup", "deliver"} => reader \in {"lookup", "deliver"})
  BY <1>7 DEF Causal
<1>8. CASE ReaderEnds \/ Main \/ ExecExitsEarly
  <2>1. UNCHANGED <<stdin, answered, held, chan>>
        /\ (reader' \in {"lookup", "deliver"} => reader \in {"lookup", "deliver"})
    BY <1>8 DEF ReaderEnds, Main, TakeError, TakeCommand, MainExits, ExecFinishes,
       ExecExitsEarly, ExecEnds, peerVars, readerVars
  <2> QED
    BY <1>7, <2>1
<1>9. CASE \/ PeerCloses \/ Exited \/ UNCHANGED vars
           \/ \E f \in Forwards : \/ ForwardBegins(f) \/ ForwardWrites(f)
                                  \/ ForwardAborts(f) \/ ForwardLeaves(f)
  <2>1. UNCHANGED <<stdin, answered, held, chan, reader>>
    BY <1>9 DEF PeerCloses, Exited, vars, ForwardBegins, ForwardWrites, ForwardAborts,
       ForwardLeaves, peerVars, readerVars
  <2> QED
    BY <1>7, <2>1
<1> QED
  BY <1>1, <1>2, <1>3, <1>4, <1>5, <1>6, <1>8, <1>9 DEF Next, Reader, ForwardSteps

LEMMA OutcomesStep == JInv /\ Outcomes /\ [Next]_vars => Outcomes'
<1> SUFFICES ASSUME JInv, Outcomes, [Next]_vars PROVE Outcomes'
  OBVIOUS
<1>0. /\ fwd \in [Forwards -> ForwardStates] /\ cmd \in [Forwards -> 0..MaxLines]
      /\ got \in [Forwards -> Forwards \cup {None}]
      /\ chan \in [Forwards -> Forwards \cup {None}] /\ printed \in Nat
  BY HandIsOwed DEF JInv, TypeOK
<1>1. CASE UNCHANGED <<fwd, cmd, got>> /\ printed' \in {printed, printed + 1}
           /\ cancelled' \subseteq cancelled \cup {printed'} /\ cancelled \subseteq cancelled'
           /\ (cancelled' # cancelled => printed' = printed + 1)
  <2>1. cancelled' \subseteq 1..printed'
    BY <1>0, <1>1 DEF Outcomes
  <2> QED
    BY <1>1, <2>1 DEF Outcomes
<1>2. CASE ExecEnds
  BY <1>0, <1>1, <1>2 DEF ExecEnds, Current, forwardVars
<1>3. CASE \/ Reader \/ TakeError \/ TakeCommand \/ MainExits \/ PeerCloses \/ Exited
           \/ \E kind \in {"command", "bad"} : PeerLine(kind)
           \/ \E f \in Forwards : PeerResponds(f)
           \/ UNCHANGED vars
  <2>1. UNCHANGED <<fwd, cmd, got, cancelled>> /\ printed' \in {printed, printed + 1}
    BY <1>3 DEF Reader, ReaderScans, ReaderEnds, DeliverLookup, DeliverSend, TakeError,
       TakeCommand, MainExits, PeerCloses, Exited, PeerLine, PeerResponds, vars, forwardVars
  <2> QED
    BY <1>1, <2>1
<1>4. ASSUME NEW f \in Forwards, ForwardBegins(f) PROVE Outcomes'
  <2>1. /\ fwd' = [fwd EXCEPT ![f] = "registered"] /\ cmd' = [cmd EXCEPT ![f] = Current]
        /\ fwd[f] = "unused" /\ UNCHANGED <<got, printed, cancelled>>
    BY <1>4 DEF ForwardBegins
  <2>2. Current # 0
    BY <1>0 DEF Current
  <2> QED
    BY <1>0, <2>1, <2>2 DEF Outcomes
<1>5. ASSUME NEW f \in Forwards, ForwardReceives(f) PROVE Outcomes'
  <2>1. /\ fwd' = [fwd EXCEPT ![f] = "leaving"] /\ got' = [got EXCEPT ![f] = chan[f]]
        /\ chan[f] # None /\ fwd[f] = "waiting" /\ UNCHANGED <<cmd, printed, cancelled>>
    BY <1>5 DEF ForwardReceives
  <2> QED
    BY <1>0, <2>1 DEF Outcomes
<1>6. ASSUME NEW f \in Forwards, ForwardWrites(f) \/ ForwardAborts(f) \/ ForwardLeaves(f)
      PROVE  Outcomes'
  <2>1. UNCHANGED <<got, cmd, printed, cancelled>>
    BY <1>6 DEF ForwardWrites, ForwardAborts, ForwardLeaves
  <2>2. CASE ForwardWrites(f)
    BY <1>0, <2>1, <2>2 DEF ForwardWrites, Outcomes
  <2>3. CASE ForwardAborts(f)
    BY <1>0, <2>1, <2>3 DEF ForwardAborts, Outcomes
  <2>4. CASE ForwardLeaves(f)
    BY <1>0, <2>1, <2>4 DEF ForwardLeaves, Outcomes
  <2> QED
    BY <1>6, <2>2, <2>3, <2>4
<1> QED
  BY <1>2, <1>3, <1>4, <1>5, <1>6
     DEF Next, Main, ExecFinishes, ExecExitsEarly, ForwardSteps

\* Each step of the program is one step of the contract or none.
LEMMA ContractStep ==
  JInv /\ Causal /\ Outcomes /\ [Next]_vars => [Contract!Next]_(Contract!vars)
<1> SUFFICES ASSUME JInv, Causal, Outcomes, [Next]_vars
             PROVE  [Contract!Next]_(Contract!vars)
  OBVIOUS
<1> DEFINE replied == {f \in Forwards : answered[f] > 0}
           handed == {f \in Forwards : got[f] # None}
<1>0. /\ answered \in [Forwards -> Nat] /\ got \in [Forwards -> Forwards \cup {None}]
      /\ chan \in [Forwards -> Forwards \cup {None}] /\ cmd \in [Forwards -> 0..MaxLines]
      /\ printed \in Nat /\ sent \in Nat
  BY HandIsOwed DEF JInv, TypeOK
<1>1. CASE UNCHANGED <<sent, printed, main, cmd, answered, got>>
  BY <1>1 DEF Contract!vars
<1>2. ASSUME NEW kind \in {"command", "bad"}, PeerLine(kind) PROVE Contract!Next
  <2>1. main # "exited"
    BY <1>2 DEF PeerLine, JInv, Account
  <2> QED
    BY <1>2, <2>1 DEF PeerLine, Contract!Next, Contract!Send, forwardVars
<1>3. ASSUME NEW f \in Forwards, PeerResponds(f) PROVE [Contract!Next]_(Contract!vars)
  <2>1. /\ cmd[f] # 0 /\ answered' = [answered EXCEPT ![f] = @ + 1]
        /\ UNCHANGED <<sent, printed, main, cmd, got>>
    BY <1>3 DEF PeerResponds, Outcomes, forwardVars
  <2>2. replied' = replied \cup {f}
    BY <1>0, <2>1
  <2>3. CASE f \in replied
    BY <2>1, <2>2, <2>3 DEF Contract!vars
  <2>4. CASE f \notin replied
    <3>1. Contract!Reply(f)
      BY <2>1, <2>2, <2>4 DEF Contract!Reply
    <3> QED
      BY <3>1 DEF Contract!Next
  <2> QED
    BY <2>3, <2>4
<1>4. CASE TakeError
  BY <1>0, <1>4, HandIsOwed
     DEF TakeError, Contract!Next, Contract!Reject, peerVars, forwardVars
<1>5. CASE TakeCommand
  <2>1. printed < sent
    <3>1. Count(stdin) \in Nat
      BY CountType DEF JInv, TypeOK
    <3> QED
      BY <1>0, <1>5, <3>1 DEF TakeCommand, JInv, Account, InHand
  <2> QED
    BY <1>5, <2>1 DEF TakeCommand, Contract!Next, Contract!Begin, peerVars, forwardVars
<1>6. CASE MainExits
  <2>1. printed = sent
    <3>1. stdin = << >> /\ InHand = 0
      BY <1>6 DEF MainExits, JInv, Account, InHand
    <3> QED
      BY <1>0, <3>1, CountEmpty DEF JInv, Account
  <2> QED
    BY <1>6, <2>1 DEF MainExits, Contract!Next, Contract!End, peerVars, forwardVars
<1>7. ASSUME main = "exec", ExecEnds,
             (\A f \in Mine : fwd[f] = "gone") \/ (\E f \in Mine : fwd[f] = "gone")
      PROVE  Contract!Next
  <2>1. Current \notin cancelled
    BY <1>0 DEF Outcomes, Current
  <2>2. \A f \in Mine : fwd[f] = "gone" => f \in handed
    BY <2>1 DEF Outcomes, Mine
  <2>3. Contract!Asked = Mine
    BY <1>0 DEF Contract!Asked, Outcomes, Mine, Current
  <2>4. Contract!Asked = {} \/ Contract!Asked \cap handed # {}
    BY <1>7, <2>2, <2>3
  <2>5. Contract!Finish
    BY <1>7, <2>4 DEF ExecEnds, Contract!Finish, peerVars, forwardVars
  <2> QED
    BY <2>5 DEF Contract!Next
<1>8. ASSUME NEW f \in Forwards, ForwardBegins(f) PROVE Contract!Next
  <2>1. cmd[f] = 0
    BY <1>8 DEF ForwardBegins, Outcomes
  <2>2. Contract!Ask(f)
    BY <1>8, <2>1 DEF ForwardBegins, Contract!Ask, Current, peerVars
  <2> QED
    BY <2>2 DEF Contract!Next
<1>9. ASSUME NEW f \in Forwards, ForwardReceives(f) PROVE Contract!Next
  <2>1. /\ got' = [got EXCEPT ![f] = chan[f]] /\ chan[f] # None
        /\ UNCHANGED <<sent, printed, main, cmd, answered>>
    BY <1>9 DEF ForwardReceives, peerVars
  <2>2. f \in replied /\ f \notin handed
    BY <1>9 DEF ForwardReceives, Causal, Outcomes
  <2>3. handed' = handed \cup {f}
    BY <1>0, <2>1
  <2>4. Contract!HandOver(f)
    BY <2>1, <2>2, <2>3 DEF Contract!HandOver
  <2> QED
    BY <2>4 DEF Contract!Next
<1>10. CASE \/ PeerCloses \/ Reader \/ Exited \/ UNCHANGED vars
            \/ \E f \in Forwards : ForwardWrites(f) \/ ForwardAborts(f) \/ ForwardLeaves(f)
  <2>1. UNCHANGED <<sent, printed, main, cmd, answered, got>>
    BY <1>10 DEF PeerCloses, Reader, ReaderScans, ReaderEnds, DeliverLookup, DeliverSend,
       Exited, vars, ForwardWrites, ForwardAborts, ForwardLeaves, peerVars, forwardVars
  <2> QED
    BY <1>1, <2>1
<1> QED
  BY <1>2, <1>3, <1>4, <1>5, <1>6, <1>7, <1>8, <1>9, <1>10
     DEF Next, Main, ExecFinishes, ExecExitsEarly, ForwardSteps

\* JSON mode implements its contract with any peer, polite or not: lines are answered
\* one at a time, a request's reply is handed over once and after the peer gave it, and
\* a late reply to an abandoned command never ends a later one (rpc_forward.go:77).
THEOREM JsonKeepsContract == Spec => ImplementsJsonContract
<1>1. Init => Causal /\ Outcomes
  BY DEF Init, Causal, Outcomes
<1>2. Init => Contract!Init
  BY DEF Init, Contract!Init
<1> QED
  BY <1>1, <1>2, JInductive, CausalStep, OutcomesStep, ContractStep, PTL
     DEF Spec, ImplementsJsonContract, Contract!Spec
-----------------------------------------------------------------------------
(* No circular wait: the reader, the main goroutine and the Forward calls. *)

\* What each goroutine waits for.  A send on commands or parseErrors needs the main
\* goroutine at its select, the send of Deliver a free place in the channel.
ReaderWaits ==
  \/ reader = "scan" /\ stdin = << >> /\ ~eof
  \/ reader \in {"sendCommand", "sendError"} /\ main # "select"
  \/ reader = "deliver" /\ chan[target] # None
  \/ reader = "done"

MainWaits ==
  \/ main = "select" /\ reader \notin {"sendCommand", "sendError", "done"}
  \/ main = "exec" /\ \E f \in Mine : fwd[f] # "gone"
  \/ main = "exited"

ForwardWaits(f) ==
  \/ fwd[f] \in {"unused", "gone"}
  \/ fwd[f] = "waiting" /\ chan[f] = None /\ cmd[f] \notin cancelled

\* A polite peer never makes the reader wait inside a send.
ReaderNeverBlocks ==
  polite => /\ reader = "deliver" => chan[target] = None
            /\ reader \in {"sendCommand", "sendError"} => main = "select"

IsResponse(i) == i \in 1..Len(stdin) /\ stdin[i].kind = "response"
InStdin(f) == \E i \in 1..Len(stdin) : IsResponse(i) /\ stdin[i].to = f
Delivering == reader \in {"lookup", "deliver"}
InHandFor(f) == Delivering /\ held.to = f

\* The answer a Forward still waits for is before the reader, with it, or in the channel.
AnswerOnItsWay ==
  \A f \in Forwards :
    fwd[f] = "waiting" /\ answered[f] > 0 => InStdin(f) \/ InHandFor(f) \/ chan[f] = f

\* When nobody can go on, it is the peer's turn or the program has ended.
NoCircularWait ==
  polite /\ ReaderWaits /\ MainWaits /\ (\A f \in Forwards : ForwardWaits(f)) =>
    /\ \A f \in Forwards : fwd[f] = "waiting" => answered[f] = 0
    /\ \/ main = "exited"
       \/ main = "exec" /\ \E f \in Mine : fwd[f] = "waiting"
       \/ main = "select" /\ reader = "scan" /\ ~eof /\ printed = sent

\* A request is answered once it is written, and no answer is dropped while its
\* Forward waits.
Delivery ==
  /\ \A f \in Forwards : fwd[f] \in {"unused", "registered"} => answered[f] = 0
  /\ AnswerOnItsWay

\* A polite peer's answer is in one place, and one line of it is not answered yet.
Single ==
  polite =>
    /\ \A i, j \in 1..Len(stdin) :
         IsResponse(i) /\ IsResponse(j) /\ stdin[i].to = stdin[j].to => i = j
    /\ \A i \in 1..Len(stdin) :
         IsResponse(i) => chan[stdin[i].to] = None /\ ~InHandFor(stdin[i].to)
    /\ Delivering => chan[held.to] = None
    /\ sent <= printed + 1

LEMMA DeliveryStep == JInv /\ Delivery /\ [Next]_vars => Delivery'
<1> SUFFICES ASSUME JInv, Delivery, [Next]_vars PROVE Delivery'
  OBVIOUS
<1>0. /\ stdin \in Seq(Lines) /\ answered \in [Forwards -> Nat]
      /\ fwd \in [Forwards -> ForwardStates] /\ chan \in [Forwards -> Forwards \cup {None}]
  BY DEF JInv, TypeOK
<1>1. CASE \E kind \in {"command", "bad"} : PeerLine(kind)
  <2> PICK kind \in {"command", "bad"} : PeerLine(kind)
    BY <1>1
  <2> DEFINE line == Line(kind, None, None)
  <2>1. stdin' = Append(stdin, line) /\ UNCHANGED <<answered, reader, held, chan, fwd>>
    BY DEF PeerLine, readerVars, forwardVars
  <2>2. \A f \in Forwards : InStdin(f) => InStdin(f)'
    <3>1. \A i \in 1..Len(stdin) : i \in 1..Len(stdin') /\ stdin'[i] = stdin[i]
      <4> HIDE DEF line
      <4> QED
        BY <1>0, <2>1
    <3> QED
      BY <3>1 DEF InStdin, IsResponse
  <2> QED
    BY <2>1, <2>2 DEF Delivery, AnswerOnItsWay, InHandFor, Delivering
<1>2. CASE \E f \in Forwards : PeerResponds(f)
  <2> PICK f \in Forwards : PeerResponds(f)
    BY <1>2
  <2> DEFINE line == Line("response", wire[f], f)
  <2>1. /\ stdin' = Append(stdin, line) /\ answered' = [answered EXCEPT ![f] = @ + 1]
        /\ UNCHANGED <<reader, held, chan, fwd>>
        /\ fwd[f] \in {"waiting", "leaving", "gone"}
    BY DEF PeerResponds, readerVars, forwardVars
  <2>2. line.kind = "response" /\ line.to = f
    BY DEF Line
  <2>3. /\ Len(stdin) + 1 \in 1..Len(stdin') /\ stdin'[Len(stdin) + 1] = line
        /\ \A i \in 1..Len(stdin) : i \in 1..Len(stdin') /\ stdin'[i] = stdin[i]
    <3> HIDE DEF line
    <3> QED
      BY <1>0, <2>1
  <2>4. \A g \in Forwards : InStdin(g) => InStdin(g)'
    BY <2>3 DEF InStdin, IsResponse
  <2>5. InStdin(f)'
    BY <2>2, <2>3 DEF InStdin, IsResponse
  <2>6. \A g \in Forwards \ {f} : answered'[g] = answered[g]
    BY <1>0, <2>1
  <2> HIDE DEF line
  <2>7. ASSUME NEW g \in Forwards, fwd'[g] \in {"unused", "registered"}
        PROVE  answered'[g] = 0
    BY <2>1, <2>6, <2>7 DEF Delivery
  <2>8. ASSUME NEW g \in Forwards, fwd'[g] = "waiting" /\ answered'[g] > 0
        PROVE  InStdin(g)' \/ InHandFor(g)' \/ chan'[g] = g
    <3>1. CASE g = f
      BY <2>5, <3>1
    <3>2. CASE g # f
      <4>1. InStdin(g) \/ InHandFor(g) \/ chan[g] = g
        BY <2>1, <2>6, <2>8, <3>2 DEF Delivery, AnswerOnItsWay
      <4> QED
        BY <2>1, <2>4, <4>1 DEF InHandFor, Delivering
    <3> QED
      BY <3>1, <3>2
  <2> QED
    BY <2>7, <2>8 DEF Delivery, AnswerOnItsWay
<1>3. CASE ReaderScans
  <2>1. /\ stdin' = Tail(stdin) /\ stdin # << >> /\ UNCHANGED <<answered, chan, fwd>>
        /\ Head(stdin) = stdin[1] /\ Len(stdin') = Len(stdin) - 1
        /\ Len(stdin) \in Nat /\ reader = "scan"
        /\ \A i \in 2..Len(stdin) : i - 1 \in 1..Len(stdin') /\ stdin'[i - 1] = stdin[i]
    BY <1>0, <1>3 DEF ReaderScans, peerVars, forwardVars
  <2>2. stdin[1].kind = "response" => reader' = "lookup" /\ held' = stdin[1]
    BY <1>3, <2>1 DEF ReaderScans
  <2>3. ASSUME NEW f \in Forwards, InStdin(f) PROVE InStdin(f)' \/ InHandFor(f)'
    <3>1. PICK i \in 1..Len(stdin) : stdin[i].kind = "response" /\ stdin[i].to = f
      BY <2>3 DEF InStdin, IsResponse
    <3>2. CASE i = 1
      BY <2>2, <3>1, <3>2 DEF InHandFor, Delivering
    <3>3. CASE i # 1
      <4>1. i \in 2..Len(stdin)
        BY <2>1, <3>1, <3>3
      <4>2. i - 1 \in 1..Len(stdin') /\ stdin'[i - 1] = stdin[i]
        BY <2>1, <4>1
      <4> QED
        BY <3>1, <4>2 DEF InStdin, IsResponse
    <3> QED
      BY <3>2, <3>3
  <2> QED
    BY <2>1, <2>3 DEF Delivery, AnswerOnItsWay, InHandFor, Delivering
<1>4. CASE DeliverLookup
  <2>1. /\ UNCHANGED <<stdin, answered, chan, fwd>> /\ reader = "lookup"
        /\ \A f \in Forwards : InStdin(f) => InStdin(f)'
    BY <1>4 DEF DeliverLookup, peerVars, forwardVars, InStdin, IsResponse
  <2>2. ASSUME NEW f \in Forwards, fwd[f] = "waiting", held.to = f
        PROVE  InHandFor(f)'
    <3>1. held.id = f /\ pending[f] = f /\ f # None
      BY <2>1, <2>2 DEF JInv, AnswersKeepTheirID, OwnLine, Wiring, Live, Forwards, None
    <3> QED
      BY <1>4, <2>2, <3>1 DEF DeliverLookup, InHandFor, Delivering
  <2> QED
    BY <2>1, <2>2 DEF Delivery, AnswerOnItsWay, InHandFor
<1>5. CASE DeliverSend
  <2>1. /\ UNCHANGED <<stdin, answered, fwd>> /\ held.to = target /\ target \in Forwards
        /\ chan' = [chan EXCEPT ![target] = held.to]
        /\ \A f \in Forwards : InStdin(f) => InStdin(f)'
    BY <1>5 DEF DeliverSend, peerVars, forwardVars, InStdin, IsResponse, JInv,
       AnswersKeepTheirID, OwnLine
  <2>2. chan'[target] = target /\ \A f \in Forwards \ {target} : chan'[f] = chan[f]
    BY <1>0, <2>1
  <2> QED
    BY <2>1, <2>2 DEF Delivery, AnswerOnItsWay, InHandFor
<1>6. ASSUME NEW f \in Forwards, ForwardBegins(f) \/ ForwardSteps(f) PROVE Delivery'
  <2>1. /\ UNCHANGED <<stdin, answered, reader, held>>
        /\ \A g \in Forwards : InStdin(g) = InStdin(g)' /\ InHandFor(g) = InHandFor(g)'
    BY <1>6 DEF ForwardBegins, ForwardSteps, ForwardWrites, ForwardReceives,
       ForwardAborts, ForwardLeaves, peerVars, readerVars, InStdin, IsResponse,
       InHandFor, Delivering
  <2>2. /\ \A g \in Forwards \ {f} : fwd'[g] = fwd[g] /\ chan'[g] = chan[g]
        /\ \/ fwd[f] = "unused" /\ fwd'[f] = "registered"
           \/ fwd[f] = "registered" /\ fwd'[f] = "waiting"
           \/ fwd'[f] \in {"leaving", "gone"}
    BY <1>0, <1>6 DEF ForwardBegins, ForwardSteps, ForwardWrites, ForwardReceives,
       ForwardAborts, ForwardLeaves
  <2>3. ASSUME NEW g \in Forwards, fwd'[g] \in {"unused", "registered"}
        PROVE  answered'[g] = 0
    BY <2>1, <2>2, <2>3 DEF Delivery
  <2>4. ASSUME NEW g \in Forwards, fwd'[g] = "waiting" /\ answered'[g] > 0
        PROVE  InStdin(g)' \/ InHandFor(g)' \/ chan'[g] = g
    <3>1. g # f
      BY <1>0, <2>1, <2>2, <2>4 DEF Delivery
    <3>2. InStdin(g) \/ InHandFor(g) \/ chan[g] = g
      BY <2>1, <2>2, <2>4, <3>1 DEF Delivery, AnswerOnItsWay
    <3> QED
      BY <2>1, <2>2, <3>1, <3>2
  <2> QED
    BY <2>3, <2>4 DEF Delivery, AnswerOnItsWay
<1>7. CASE UNCHANGED <<stdin, answered, held, chan, fwd>> /\ Delivering' = Delivering
  BY <1>7 DEF Delivery, AnswerOnItsWay, InStdin, IsResponse, InHandFor
<1>8. CASE ReaderEnds \/ Main \/ ExecExitsEarly \/ PeerCloses \/ Exited \/ UNCHANGED vars
  <2>1. UNCHANGED <<stdin, answered, held, chan, fwd>> /\ Delivering' = Delivering
    BY <1>8 DEF ReaderEnds, Main, TakeError, TakeCommand, MainExits, ExecFinishes,
       ExecExitsEarly, ExecEnds, PeerCloses, Exited, vars, peerVars, readerVars,
       forwardVars, Delivering
  <2> QED
    BY <1>7, <2>1
<1> QED
  BY <1>1, <1>2, <1>3, <1>4, <1>5, <1>6, <1>8 DEF Next, Reader

LEMMA SingleStep == JInv /\ Causal /\ Single /\ [Next]_vars => Single'
<1> SUFFICES ASSUME JInv, Causal, Single, [Next]_vars, polite' PROVE Single'
  BY DEF Single
<1>0. /\ stdin \in Seq(Lines) /\ answered \in [Forwards -> Nat]
      /\ chan \in [Forwards -> Forwards \cup {None}] /\ printed \in Nat /\ sent \in Nat
  BY HandIsOwed DEF JInv, TypeOK
<1>1. CASE \E kind \in {"command", "bad"} : PeerLine(kind)
  <2> PICK kind \in {"command", "bad"} : PeerLine(kind)
    BY <1>1
  <2> DEFINE line == Line(kind, None, None)
  <2>1. /\ stdin' = Append(stdin, line) /\ UNCHANGED <<reader, held, chan>>
        /\ polite /\ sent' = sent + 1 /\ printed' = printed /\ printed = sent
    BY DEF PeerLine, readerVars, forwardVars
  <2>2. line.kind # "response"
    BY DEF Line
  <2>3. \A i \in 1..Len(stdin') : IsResponse(i)' => IsResponse(i) /\ stdin'[i] = stdin[i]
    <3>1. /\ \A i \in 1..Len(stdin') : i = Len(stdin) + 1 \/ i \in 1..Len(stdin)
          /\ \A i \in 1..Len(stdin) : stdin'[i] = stdin[i]
          /\ stdin'[Len(stdin) + 1] = line
      <4> HIDE DEF line
      <4> QED
        BY <1>0, <2>1
    <3> HIDE DEF line
    <3> QED
      BY <2>2, <3>1 DEF IsResponse
  <2> HIDE DEF line
  <2>4. /\ \A i, j \in 1..Len(stdin') :
             (IsResponse(i) /\ IsResponse(j) /\ stdin[i].to = stdin[j].to)' => i = j
        /\ \A i \in 1..Len(stdin') :
             IsResponse(i)' => chan'[stdin'[i].to] = None /\ ~InHandFor(stdin[i].to)'
    BY <2>1, <2>3 DEF Single, IsResponse, InHandFor, Delivering
  <2>5. sent' <= printed' + 1
    BY <1>0, <2>1
  <2> QED
    BY <2>1, <2>4, <2>5 DEF Single, Delivering
<1>2. CASE \E f \in Forwards : PeerResponds(f)
  <2> PICK f \in Forwards : PeerResponds(f)
    BY <1>2
  <2> DEFINE line == Line("response", wire[f], f)
  <2>1. /\ stdin' = Append(stdin, line) /\ UNCHANGED <<reader, held, chan, sent, printed>>
        /\ polite /\ answered[f] = 0
    BY DEF PeerResponds, readerVars, forwardVars
  <2>2. line.kind = "response" /\ line.to = f
    BY DEF Line
  <2>3. /\ \A i \in 1..Len(stdin') : i = Len(stdin) + 1 \/ i \in 1..Len(stdin)
        /\ \A i \in 1..Len(stdin) : i \in 1..Len(stdin') /\ stdin'[i] = stdin[i]
        /\ stdin'[Len(stdin) + 1] = line
    <3> HIDE DEF line
    <3> QED
      BY <1>0, <2>1
  <2> HIDE DEF line
  <2>4. ~InHandFor(f) /\ chan[f] = None
    BY <2>1 DEF Causal, InHandFor, Delivering
  <2>5. \A i \in 1..Len(stdin) : IsResponse(i) => stdin[i].to # f
    BY <2>1 DEF Causal, IsResponse
  <2>6. \A i \in 1..Len(stdin) : IsResponse(i)' <=> IsResponse(i)
    BY <2>3 DEF IsResponse
  <2>7. ASSUME NEW i \in 1..Len(stdin'), NEW j \in 1..Len(stdin'),
               IsResponse(i)', IsResponse(j)', stdin'[i].to = stdin'[j].to
        PROVE  i = j
    BY <2>1, <2>2, <2>3, <2>5, <2>6, <2>7 DEF Single
  <2>8. ASSUME NEW i \in 1..Len(stdin'), IsResponse(i)'
        PROVE  chan'[stdin'[i].to] = None /\ ~InHandFor(stdin[i].to)'
    BY <2>1, <2>2, <2>3, <2>4, <2>6, <2>8 DEF Single, InHandFor, Delivering
  <2> QED
    BY <2>1, <2>7, <2>8 DEF Single, Delivering
<1>3. CASE ReaderScans
  <2>0. /\ stdin' = Tail(stdin) /\ stdin # << >>
        /\ sent' = sent /\ printed' = printed /\ polite' = polite /\ chan' = chan
    BY <1>3 DEF ReaderScans, peerVars
  <2>1. /\ Head(stdin) = stdin[1] /\ Len(stdin) \in Nat /\ Len(stdin) > 0
        /\ \A i \in 1..Len(stdin') : stdin'[i] = stdin[i + 1] /\ i + 1 \in 1..Len(stdin)
        /\ \A i \in 1..Len(stdin') : i \in Nat /\ i + 1 # 1
    BY <1>0, <2>0
  <2>2. Delivering' => held' = stdin[1] /\ IsResponse(1) /\ 1 \in 1..Len(stdin)
    BY <1>3, <2>0, <2>1 DEF ReaderScans, Delivering, IsResponse
  <2>3. \A i \in 1..Len(stdin') : IsResponse(i)' => IsResponse(i + 1)
    BY <2>0, <2>1 DEF IsResponse
  <2>4. \A i, j \in 1..Len(stdin') : i + 1 = j + 1 => i = j
    BY <2>0, <2>1
  <2>5. ASSUME NEW i \in 1..Len(stdin'), NEW j \in 1..Len(stdin'),
               IsResponse(i)', IsResponse(j)', stdin'[i].to = stdin'[j].to
        PROVE  i = j
    <3>1. i + 1 = j + 1
      BY <2>0, <2>1, <2>3, <2>5 DEF Single
    <3> QED
      BY <2>4, <3>1
  <2>6. ASSUME NEW i \in 1..Len(stdin'), IsResponse(i)'
        PROVE  chan'[stdin'[i].to] = None /\ ~InHandFor(stdin[i].to)'
    <3>1. chan'[stdin'[i].to] = None
      BY <2>0, <2>1, <2>3, <2>6 DEF Single
    <3>2. Delivering' => stdin[1].to # stdin[i + 1].to
      BY <2>0, <2>1, <2>2, <2>3, <2>6 DEF Single
    <3> QED
      BY <2>0, <2>1, <2>2, <3>1, <3>2 DEF InHandFor
  <2>7. Delivering' => chan'[held'.to] = None
    BY <2>0, <2>1, <2>2 DEF Single
  <2> QED
    BY <2>0, <2>1, <2>5, <2>6, <2>7 DEF Single
<1>4. CASE DeliverSend
  <2>1. /\ UNCHANGED <<stdin, polite, sent, printed>> /\ ~Delivering'
        /\ held.to = target /\ InHandFor(target)
        /\ \A f \in Forwards \ {target} : chan'[f] = chan[f]
    BY <1>0, <1>4 DEF DeliverSend, peerVars, Delivering, InHandFor, JInv,
       AnswersKeepTheirID, OwnLine
  <2>2. \A i \in 1..Len(stdin) : IsResponse(i) => stdin[i].to \in Forwards \ {target}
    BY <2>1 DEF Single, JInv, AnswersKeepTheirID, OwnLine, IsResponse
  <2> QED
    BY <2>1, <2>2 DEF Single, IsResponse, InHandFor
<1>5. CASE \E f \in Forwards : ForwardReceives(f)
  <2>1. /\ UNCHANGED <<stdin, polite, reader, held, sent, printed>>
        /\ \A f \in Forwards : chan'[f] \in {chan[f], None}
    BY <1>0, <1>5 DEF ForwardReceives, peerVars, readerVars
  <2>2. \A i \in 1..Len(stdin) : IsResponse(i) => stdin[i].to \in Forwards
    BY DEF JInv, AnswersKeepTheirID, OwnLine, IsResponse
  <2>3. Delivering => held.to \in Forwards
    BY DEF JInv, AnswersKeepTheirID, OwnLine, Delivering
  <2> QED
    BY <2>1, <2>2, <2>3 DEF Single, IsResponse, InHandFor, Delivering
<1>6. CASE /\ UNCHANGED <<stdin, polite, chan, sent>> /\ printed' \in {printed, printed + 1}
           /\ Delivering' => Delivering /\ held' = held
  <2>1. sent' = sent /\ (printed' = printed \/ printed' = printed + 1)
    BY <1>6
  <2>2. sent <= printed + 1 => sent' <= printed' + 1
    BY <1>0, <2>1
  <2> QED
    BY <1>6, <2>2 DEF Single, IsResponse, InHandFor
<1>7. CASE \/ DeliverLookup \/ ReaderEnds \/ Main \/ ExecExitsEarly \/ PeerCloses
           \/ Exited \/ UNCHANGED vars
           \/ \E f \in Forwards : \/ ForwardBegins(f) \/ ForwardWrites(f)
                                  \/ ForwardAborts(f) \/ ForwardLeaves(f)
  <2>1. /\ UNCHANGED <<stdin, polite, chan, sent>> /\ printed' \in {printed, printed + 1}
        /\ Delivering' => Delivering /\ held' = held
    BY <1>7 DEF DeliverLookup, ReaderEnds, Main, TakeError, TakeCommand, MainExits,
       ExecFinishes, ExecExitsEarly, ExecEnds, PeerCloses, Exited, vars, ForwardBegins,
       ForwardWrites, ForwardAborts, ForwardLeaves, peerVars, readerVars, Delivering
  <2> QED
    BY <1>6, <2>1
<1> QED
  BY <1>1, <1>2, <1>3, <1>4, <1>5, <1>7 DEF Next, Reader, ForwardSteps

LEMMA OnItsWay == Spec => [](JInv /\ Causal /\ Delivery /\ Single)
<1>1. Init => Causal
  BY DEF Init, Causal
<1>2. Init => Delivery
  BY DEF Init, Delivery, AnswerOnItsWay
<1>3. Init => Single
  BY DEF Init, Single, IsResponse, Delivering
<1> QED
  BY <1>1, <1>2, <1>3, JInductive, CausalStep, DeliveryStep, SingleStep, PTL DEF Spec

\* A line of a polite peer that the reader holds is the one line not answered.
LEMMA HandOfPolite ==
  ASSUME JInv, Single, polite, reader \in {"sendCommand", "sendError"}
  PROVE  main = "select"
<1>1. sent <= printed + 1 /\ Count(stdin) \in Nat
  BY CountType DEF Single, JInv, TypeOK
<1>2. main # "exec"
  BY <1>1, HandIsOwed DEF JInv, Account, InHand
<1>3. main # "exited"
  BY DEF JInv, Account
<1> QED
  BY <1>2, <1>3 DEF JInv, TypeOK

LEMMA ReaderIsFree == ASSUME JInv, Single PROVE ReaderNeverBlocks
<1>1. ASSUME polite, reader = "deliver" PROVE chan[target] = None
  BY <1>1 DEF Single, Delivering, JInv, AnswersKeepTheirID, OwnLine
<1> QED
  BY <1>1, HandOfPolite DEF ReaderNeverBlocks

\* The answer a Forward waits for reaches it whatever the peer sends: it is never
\* dropped as an answer to nobody, nor taken by another Forward (rpc_forward.go:91).
THEOREM AnswerOnItsWayHolds == Spec => []AnswerOnItsWay
<1>1. Delivery => AnswerOnItsWay
  BY DEF Delivery
<1> QED
  BY <1>1, OnItsWay, PTL

\* With a polite peer the reader never waits inside a send: the buffer of one is enough
\* for Deliver, also when the Forward has left its select, and a command finds the main
\* goroutine ready (json.go:88, rpc_forward.go:94).
THEOREM ReaderNeverBlocksHolds == Spec => []ReaderNeverBlocks
<1>1. JInv /\ Single => ReaderNeverBlocks
  BY ReaderIsFree
<1> QED
  BY <1>1, OnItsWay, PTL

\* The reader, the main goroutine and the Forward calls never wait for each other in a
\* circle: with a polite peer, when nobody can go on, then the peer owes an answer to
\* every Forward that waits, or its next line, or the program has ended (json.go:88, 93).
THEOREM NoCircularWaitHolds == Spec => []NoCircularWait
<1>1. ASSUME JInv, Delivery, Single PROVE NoCircularWait
  <2> SUFFICES ASSUME polite, ReaderWaits, MainWaits,
                      \A f \in Forwards : ForwardWaits(f)
               PROVE  /\ \A f \in Forwards : fwd[f] = "waiting" => answered[f] = 0
                      /\ \/ main = "exited"
                         \/ main = "exec" /\ \E f \in Mine : fwd[f] = "waiting"
                         \/ main = "select" /\ reader = "scan" /\ ~eof /\ printed = sent
    BY DEF NoCircularWait
  <2>1. stdin = << >> /\ reader \in {"scan", "done"} /\ (reader = "scan" => ~eof)
    BY <1>1, ReaderIsFree DEF ReaderWaits, ReaderNeverBlocks, JInv, Account
  <2>2. ASSUME NEW f \in Forwards, fwd[f] = "waiting" PROVE answered[f] = 0
    <3>1. ~InStdin(f) /\ ~InHandFor(f)
      BY <2>1 DEF InStdin, InHandFor, Delivering
    <3>2. chan[f] # f
      BY <2>2 DEF ForwardWaits, Forwards, None
    <3>3. answered[f] \in Nat
      BY <1>1 DEF JInv, TypeOK
    <3> QED
      BY <1>1, <2>2, <3>1, <3>2, <3>3 DEF Delivery, AnswerOnItsWay
  <2>3. CASE main = "exec"
    <3>1. PICK f \in Mine : fwd[f] # "gone"
      BY <2>3 DEF MainWaits
    <3>2. fwd[f] = "waiting"
      BY <3>1 DEF Mine, ForwardWaits
    <3> QED
      BY <2>2, <2>3, <3>2
  <2>4. CASE main = "select"
    <3>1. reader = "scan" /\ ~eof
      BY <2>1, <2>4 DEF MainWaits
    <3>2. printed = sent
      BY <1>1, <2>1, <2>4, <3>1, CountEmpty, HandIsOwed DEF JInv, Account, InHand
    <3> QED
      BY <2>2, <2>4, <3>1, <3>2
  <2> QED
    BY <2>2, <2>3, <2>4 DEF MainWaits
<1> QED
  BY <1>1, OnItsWay, PTL
=============================================================================
