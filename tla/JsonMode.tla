------------------------------ MODULE JsonMode ------------------------------
(***************************************************************************)
(* The CLI's JSON mode (kafig-cli/json.go with rpc_forward.go): a reader   *)
(* goroutine routes the lines of stdin, the main goroutine executes one    *)
(* command at a time, and every RPC of a script becomes a Forward call     *)
(* that writes a request line and waits for the peer's rpc_response.       *)
(*                                                                         *)
(* The execution of a command is what CallContract says of an async call:  *)
(* it returns when all its RPCs are answered, or early, by an error, once  *)
(* at least one is; its RPC context is cancelled when it returns.  The     *)
(* peer is the environment.  Forward calls are numbered in the order they  *)
(* begin; the id on the wire is a field of the call.                       *)
(***************************************************************************)
EXTENDS Integers, Sequences, FiniteSets

CONSTANTS
  MaxLines,    \* bound on the command lines (good or bad) the peer sends
  MaxForwards, \* bound on the Forward calls of the whole session
  Pipelining,  \* may the peer send a line before the last one is answered?
  Duplicates   \* may the peer answer a request a second time?

ASSUME JsonAssumption ==
  /\ MaxLines \in Nat /\ MaxForwards \in Nat
  /\ Pipelining \in BOOLEAN /\ Duplicates \in BOOLEAN

Forwards == 1..MaxForwards
None == 0

VARIABLES
  stdin,     \* the lines the peer has written and the scanner has not read
  eof,       \* the peer has closed stdin
  sent,      \* how many command lines, good or bad, the peer has sent
  printed,   \* how many answers printJSON has written
  answered,  \* how many responses the peer has sent for each Forward
  polite,    \* history: it always waited for the answer before its next command
             \* line, and answered no request twice
  reader,    \* the reader goroutine, see ReaderStates
  held,      \* the response line Deliver was called with
  target,    \* the Forward whose channel Deliver has looked up
  main,      \* the main goroutine: "select", "exec", "exited"
  nextID,    \* the forwarder's counter
  fwd,       \* each Forward call, see ForwardStates
  wire,      \* its id on the wire
  cmd,       \* the command (its number in printed order) it belongs to
  pending,   \* the forwarder's map: wire id to Forward
  chan,      \* the content of its channel of capacity 1: whose answer it is
  got,       \* whose answer Forward returned
  cancelled  \* the commands whose RPC context is cancelled

peerVars == <<eof, sent, answered, polite>>
readerVars == <<reader, held, target>>
forwardVars == <<nextID, fwd, wire, cmd, pending, got>>
vars == <<stdin, peerVars, printed, readerVars, main, forwardVars, chan, cancelled>>

(***************************************************************************)
(* The reader is at Scan(), at a send to commands or to parseErrors, at    *)
(* the map lookup of Deliver, at its send, or has returned.  A Forward is  *)
(* registered in the map, then waiting at its select once the request is   *)
(* written, then leaving through the deferred delete, then gone.           *)
(***************************************************************************)
ReaderStates == {"scan", "sendCommand", "sendError", "lookup", "deliver", "done"}
ForwardStates == {"unused", "registered", "waiting", "leaving", "gone"}

Line(kind, id, to) == [kind |-> kind, id |-> id, to |-> to]
Lines == [kind : {"command", "bad", "response", "none"}, id : 0..MaxForwards,
          to : 0..MaxForwards]
NoLine == Line("none", None, None)

TypeOK ==
  /\ stdin \in Seq(Lines)
  /\ eof \in BOOLEAN
  /\ sent \in 0..MaxLines /\ printed \in 0..sent
  /\ answered \in [Forwards -> Nat]
  /\ polite \in BOOLEAN
  /\ reader \in ReaderStates
  /\ held \in Lines
  /\ target \in Forwards \cup {None}
  /\ main \in {"select", "exec", "exited"}
  /\ nextID \in 0..MaxForwards
  /\ fwd \in [Forwards -> ForwardStates]
  /\ wire \in [Forwards -> 0..MaxForwards]
  /\ cmd \in [Forwards -> 0..MaxLines]
  /\ pending \in [1..MaxForwards -> Forwards \cup {None}]
  /\ chan \in [Forwards -> Forwards \cup {None}]
  /\ got \in [Forwards -> Forwards \cup {None}]
  /\ cancelled \subseteq 1..MaxLines

Init ==
  /\ stdin = << >> /\ eof = FALSE /\ sent = 0 /\ printed = 0
  /\ answered = [f \in Forwards |-> 0] /\ polite = TRUE
  /\ reader = "scan" /\ held = NoLine /\ target = None
  /\ main = "select"
  /\ nextID = 0
  /\ fwd = [f \in Forwards |-> "unused"]
  /\ wire = [f \in Forwards |-> 0]
  /\ cmd = [f \in Forwards |-> 0]
  /\ pending = [id \in 1..MaxForwards |-> None]
  /\ chan = [f \in Forwards |-> None]
  /\ got = [f \in Forwards |-> None]
  /\ cancelled = {}

-----------------------------------------------------------------------------
(* The peer. *)

\* A line with a command, or one that is not JSON or names no command.
PeerLine(kind) ==
  /\ kind \in {"command", "bad"}
  /\ ~eof /\ sent < MaxLines
  /\ Pipelining \/ printed = sent
  /\ stdin' = Append(stdin, Line(kind, None, None))
  /\ sent' = sent + 1
  /\ polite' = (polite /\ printed = sent)
  /\ UNCHANGED <<eof, answered, printed, readerVars, main, forwardVars, chan, cancelled>>

\* The answer to a request it has read, possibly after the command is over.
PeerResponds(f) ==
  /\ ~eof
  /\ fwd[f] \in {"waiting", "leaving", "gone"}
  /\ answered[f] < (IF Duplicates THEN 2 ELSE 1)
  /\ stdin' = Append(stdin, Line("response", wire[f], f))
  /\ answered' = [answered EXCEPT ![f] = @ + 1]
  /\ polite' = (polite /\ answered[f] = 0)
  /\ UNCHANGED <<eof, sent, printed, readerVars, main, forwardVars, chan, cancelled>>

\* At any time, a command running or not, also while it owes an answer.
PeerCloses ==
  /\ ~eof
  /\ eof' = TRUE
  /\ UNCHANGED <<stdin, sent, answered, polite, printed, readerVars, main, forwardVars,
                 chan, cancelled>>

-----------------------------------------------------------------------------
(* The reader goroutine. *)

ReaderScans ==
  /\ reader = "scan" /\ stdin # << >>
  /\ stdin' = Tail(stdin)
  /\ \/ Head(stdin).kind = "command" /\ reader' = "sendCommand" /\ UNCHANGED held
     \/ Head(stdin).kind = "bad" /\ reader' = "sendError" /\ UNCHANGED held
     \/ Head(stdin).kind = "response" /\ reader' = "lookup" /\ held' = Head(stdin)
  /\ UNCHANGED <<peerVars, printed, target, main, forwardVars, chan, cancelled>>

\* The scanner ends and the deferred close(commands) runs.
ReaderEnds ==
  /\ reader = "scan" /\ stdin = << >> /\ eof
  /\ reader' = "done"
  /\ UNCHANGED <<stdin, peerVars, printed, held, target, main, forwardVars, chan, cancelled>>

\* Deliver, under the mutex: a response to nobody is dropped.
DeliverLookup ==
  /\ reader = "lookup"
  /\ target' = pending[held.id]
  /\ reader' = IF pending[held.id] = None THEN "scan" ELSE "deliver"
  /\ held' = IF pending[held.id] = None THEN NoLine ELSE held
  /\ UNCHANGED <<stdin, peerVars, printed, main, forwardVars, chan, cancelled>>

\* A variant the runs must reject: a channel without the buffer of one.
DeliverToReceiver ==
  /\ reader = "deliver"
  /\ chan[target] = None /\ fwd[target] = "waiting"
  /\ chan' = [chan EXCEPT ![target] = held.to]
  /\ reader' = "scan" /\ held' = NoLine /\ target' = None
  /\ UNCHANGED <<stdin, peerVars, printed, main, forwardVars, cancelled>>

\* Deliver, after the unlock: the send, which waits while the buffer is full.
DeliverSend ==
  /\ reader = "deliver"
  /\ chan[target] = None
  /\ chan' = [chan EXCEPT ![target] = held.to]
  /\ reader' = "scan" /\ held' = NoLine /\ target' = None
  /\ UNCHANGED <<stdin, peerVars, printed, main, forwardVars, cancelled>>

-----------------------------------------------------------------------------
(* The main goroutine. *)

\* A variant the runs must reject: the parse error is not printed.
SwallowError ==
  /\ main = "select" /\ reader = "sendError"
  /\ reader' = "scan"
  /\ UNCHANGED <<stdin, peerVars, printed, held, target, main, forwardVars, chan, cancelled>>

\* A variant the runs must reject: the bad line is executed after all.
ExecuteBadLine ==
  /\ main = "select" /\ reader = "sendError"
  /\ reader' = "scan"
  /\ printed' = printed + 1
  /\ main' = "exec"
  /\ UNCHANGED <<stdin, peerVars, held, target, forwardVars, chan, cancelled>>

TakeError ==
  /\ main = "select" /\ reader = "sendError"
  /\ reader' = "scan"
  /\ printed' = printed + 1
  /\ UNCHANGED <<stdin, peerVars, held, target, main, forwardVars, chan, cancelled>>

TakeCommand ==
  /\ main = "select" /\ reader = "sendCommand"
  /\ reader' = "scan"
  /\ main' = "exec"
  /\ UNCHANGED <<stdin, peerVars, printed, held, target, forwardVars, chan, cancelled>>

\* A variant the runs must reject: the end of stdin is signalled at once, not by
\* close(commands) after the last send.
ExitAtEOF ==
  /\ main = "select" /\ eof /\ stdin = << >>
  /\ main' = "exited"
  /\ UNCHANGED <<stdin, peerVars, printed, readerVars, forwardVars, chan, cancelled>>

MainExits ==
  /\ main = "select" /\ reader = "done"
  /\ main' = "exited"
  /\ UNCHANGED <<stdin, peerVars, printed, readerVars, forwardVars, chan, cancelled>>

\* The command being executed; its answer will be the next one printed.
Current == printed + 1
Mine == {f \in Forwards : fwd[f] # "unused" /\ cmd[f] = Current}

\* sess.exec returns, the RPC context is cancelled, and the answer is printed.
ExecEnds ==
  /\ main' = "select"
  /\ printed' = printed + 1
  /\ cancelled' = cancelled \cup {Current}
  /\ UNCHANGED <<stdin, peerVars, readerVars, forwardVars, chan>>

ExecFinishes ==
  /\ main = "exec"
  /\ \A f \in Mine : fwd[f] = "gone"
  /\ ExecEnds

\* A settlement failed or reported an error: the other RPCs are abandoned.
ExecExitsEarly ==
  /\ main = "exec"
  /\ \E f \in Mine : fwd[f] = "gone"
  /\ ExecEnds

-----------------------------------------------------------------------------
(* Forward: one call per RPC of the script, each on a handler goroutine. *)

\* nextID.Add(1), and the variant with a counter for each command.
idOfCommand == Cardinality(Mine) + 1
newID == nextID + 1

\* A script makes an RPC, whether or not somebody is left to answer it.
ForwardBegins(f) ==
  /\ main = "exec"
  /\ fwd[f] = "unused" /\ \A g \in 1..(f - 1) : fwd[g] # "unused"
  /\ nextID' = nextID + 1
  /\ fwd' = [fwd EXCEPT ![f] = "registered"]
  /\ wire' = [wire EXCEPT ![f] = newID]
  /\ cmd' = [cmd EXCEPT ![f] = Current]
  /\ pending' = [pending EXCEPT ![newID] = f]
  /\ UNCHANGED <<stdin, peerVars, printed, readerVars, main, chan, got, cancelled>>

ForwardWrites(f) ==
  /\ fwd[f] = "registered"
  /\ fwd' = [fwd EXCEPT ![f] = "waiting"]
  /\ UNCHANGED <<stdin, peerVars, printed, readerVars, main, nextID, wire, cmd, pending,
                 chan, got, cancelled>>

\* The two arms of the select.
ForwardReceives(f) ==
  /\ fwd[f] = "waiting" /\ chan[f] # None
  /\ got' = [got EXCEPT ![f] = chan[f]]
  /\ chan' = [chan EXCEPT ![f] = None]
  /\ fwd' = [fwd EXCEPT ![f] = "leaving"]
  /\ UNCHANGED <<stdin, peerVars, printed, readerVars, main, nextID, wire, cmd, pending,
                 cancelled>>

ForwardAborts(f) ==
  /\ fwd[f] = "waiting" /\ cmd[f] \in cancelled
  /\ fwd' = [fwd EXCEPT ![f] = "leaving"]
  /\ UNCHANGED <<stdin, peerVars, printed, readerVars, main, nextID, wire, cmd, pending,
                 chan, got, cancelled>>

\* The deferred delete, and the variant without it.
keepPending(f) == UNCHANGED pending
deletePending(f) == pending' = [pending EXCEPT ![wire[f]] = None]

ForwardLeaves(f) ==
  /\ fwd[f] = "leaving"
  /\ fwd' = [fwd EXCEPT ![f] = "gone"]
  /\ deletePending(f)
  /\ UNCHANGED <<stdin, peerVars, printed, readerVars, main, nextID, wire, cmd, chan, got,
                 cancelled>>

-----------------------------------------------------------------------------
Reader == ReaderScans \/ ReaderEnds \/ DeliverLookup \/ DeliverSend
Main == TakeError \/ TakeCommand \/ MainExits \/ ExecFinishes
ForwardSteps(f) ==
  ForwardWrites(f) \/ ForwardReceives(f) \/ ForwardAborts(f) \/ ForwardLeaves(f)

Exited == main = "exited" /\ UNCHANGED vars

Next ==
  \/ \E kind \in {"command", "bad"} : PeerLine(kind)
  \/ \E f \in Forwards : PeerResponds(f)
  \/ PeerCloses
  \/ Reader \/ Main \/ ExecExitsEarly
  \/ \E f \in Forwards : ForwardBegins(f) \/ ForwardSteps(f)
  \/ Exited

\* The goroutines run; the peer answers each request once, unless it has closed stdin.
Fairness ==
  /\ WF_vars(Reader) /\ WF_vars(Main)
  /\ \A f \in Forwards : /\ WF_vars(ForwardSteps(f))
                         /\ WF_vars(answered[f] = 0 /\ PeerResponds(f))

Spec == Init /\ [][Next]_vars
FairSpec == Spec /\ Fairness
-----------------------------------------------------------------------------
(* Properties. *)

\* A Forward returns the answer to its own request, also when the answer to a
\* request of an abandoned command arrives while a later command runs.
OwnAnswer == \A f \in Forwards : got[f] \in {None, f}

\* The forwarder's map holds the Forward calls that have not returned, no other:
\* an abandoned one is not left behind.
PendingIsLive ==
  \A f \in Forwards :
    fwd[f] \in {"registered", "waiting", "leaving"}
      <=> \E id \in 1..MaxForwards : pending[id] = f

\* The program ends only when every line it was sent is answered, whenever the peer
\* closed stdin.
DrainedAtExit == main = "exited" => printed = sent /\ stdin = << >>

\* JSON mode implements JsonContract: it answers the lines one at a time, ends when all
\* are answered, and no reply is handed over before the peer gave it, or twice, and a
\* reply to an earlier command's request never ends a command.
Contract == INSTANCE JsonContract WITH
  Requests <- Forwards, lines <- sent, answers <- printed,
  executing <- (main = "exec"), askedBy <- cmd,
  replied <- {f \in Forwards : answered[f] > 0},
  handed <- {f \in Forwards : got[f] # None},
  over <- (main = "exited")

ImplementsJsonContract == Contract!Spec

\* A Forward that nobody can answer any more: stdin has ended without the response.
Orphan(f) ==
  eof /\ fwd[f] \in {"registered", "waiting"} /\ answered[f] = 0

\* Every line of a polite peer is answered by a line of output, unless a Forward is
\* orphaned: the end of stdin does not release it, and its command never ends.
EveryLineAnswered ==
  \A n \in 1..MaxLines :
    (sent >= n) ~> (printed >= n \/ ~polite \/ \E f \in Forwards : Orphan(f))

\* When a polite peer closes stdin the program ends, with the same exception: no answer
\* that comes after its command was abandoned keeps the reader at its send for ever.
EndsAtEOF ==
  eof ~> (main = "exited" \/ ~polite \/ \E f \in Forwards : Orphan(f))

\* A response the peer has sent reaches the Forward that waits for it.
ResponseReaches ==
  \A f \in Forwards : (fwd[f] = "waiting" /\ answered[f] > 0) ~> (fwd[f] # "waiting")
=============================================================================
