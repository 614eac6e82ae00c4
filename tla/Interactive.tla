----------------------------- MODULE Interactive -----------------------------
(***************************************************************************)
(* The CLI (session.go) driven by the interactive mode (interactive.go)    *)
(* and, for its other modes, by commands that just arrive (JsonMode has    *)
(* how): the text typed at the prompt, what Enter makes of it, and the     *)
(* RPC forwarder of this mode (rpc_forward.go), which reads stdin itself.  *)
(*                                                                         *)
(* A text is a sequence of characters, except that a command word and a    *)
(* JSON text are one item each.  go-prompt and the terminal are external:  *)
(* the prompt reads stdin except while the executor runs, and a line goes  *)
(* to any one of those who read.                                           *)
(***************************************************************************)
EXTENDS Session, SequencesExt, FiniteSets

CONSTANTS
  Pieces,    \* what is typed at once, at the end of the text
  MaxText,   \* bound: items of a text
  MaxRPCs    \* bound: RPCs forwarded by one process

\* What a text is made of.
Space == {" ", "\n"}
Quotes == {"quote", "tick"}
Openers == {"(", "["}
Closers == {")", "]"}
CommandWords == {".dispatch", ".reset", ".clear", ".help", ".exit", ".stats"}
Json == "1"
Chars == Space \cup Quotes \cup Openers \cup Closers \cup {"backslash", "x", Json}

ASSUME InteractiveAssumption ==
  /\ {MaxText, MaxRPCs} \subseteq Nat
  /\ Pieces \subseteq Seq(Chars \cup CommandWords)

VARIABLES
  text,        \* the buffer of the prompt
  multiLine,   \* multiLine
  inMultiLine, \* inMultiLine
  nextID,      \* nextID of the forwarder
  reading,     \* the ids of the Forwards that wait in ReadString
  earlier,     \* history: nextID when the current command began
  answeredBy,  \* history: the id in the response each Forward took, 0 before
  together     \* history: the Forwards that ever waited beside another

input == <<text, multiLine, inMultiLine>>
forwarding == <<nextID, reading, earlier, answeredBy, together>>
allvars == <<svars, input, forwarding>>

InteractiveTypeOK ==
  /\ SessionTypeOK
  /\ text \in Seq(Chars \cup CommandWords) /\ Len(text) <= MaxText /\ inMultiLine \in BOOLEAN
  /\ nextID \in 0..MaxRPCs /\ earlier \in 0..nextID
  /\ reading \subseteq 1..nextID /\ together \subseteq 1..nextID
  /\ answeredBy \in [1..MaxRPCs -> 0..MaxRPCs]

InteractiveInit ==
  /\ SessionInit
  /\ text = << >> /\ multiLine = << >> /\ inMultiLine = FALSE
  /\ nextID = 0 /\ reading = {} /\ earlier = 0 /\ answeredBy = [f \in 1..MaxRPCs |-> 0]
  /\ together = {}

-----------------------------------------------------------------------------
(* Reading a text. *)

NoQuote == "none"

\* strings.TrimSpace.
TrimSpace(t) ==
  LET kept == {i \in 1..Len(t) : t[i] \notin Space} IN
    IF kept = {} THEN << >> ELSE SubSeq(t, Min(kept), Max(kept))

\* The loop of isComplete over one character.
Scan(s, c) ==
  IF s.escaped THEN [s EXCEPT !.escaped = FALSE]
  ELSE IF s.quote # NoQuote
       THEN IF c = "backslash" THEN [s EXCEPT !.escaped = TRUE]
            ELSE IF c = s.quote THEN [s EXCEPT !.quote = NoQuote] ELSE s
  ELSE IF c \in Quotes THEN [s EXCEPT !.quote = c]
  ELSE IF c \in Openers THEN [s EXCEPT !.depth = @ + 1]
  ELSE IF c \in Closers THEN [s EXCEPT !.depth = @ - 1] ELSE s

\* A variant the runs must reject: a string that is open does not count.
countingOnly(t) ==
  FoldLeft(Scan, [depth |-> 0, quote |-> NoQuote, escaped |-> FALSE], t).depth <= 0

isComplete(t) ==
  LET end == FoldLeft(Scan, [depth |-> 0, quote |-> NoQuote, escaped |-> FALSE], t) IN
    end.depth <= 0 /\ end.quote = NoQuote

\* strings.SplitN(t, " ", 3).
SplitAt(t) == SelectInSeq(t, LAMBDA c : c = " ")
SplitN(t) ==
  LET i == SplitAt(t)
      rest == SubSeq(t, i + 1, Len(t))
      j == SplitAt(rest)
  IN CASE i = 0 -> <<t>>
       [] i # 0 /\ j = 0 -> <<SubSeq(t, 1, i - 1), rest>>
       [] OTHER -> <<SubSeq(t, 1, i - 1), SubSeq(rest, 1, j - 1),
                     SubSeq(rest, j + 1, Len(rest))>>

IsDot(t) == t # << >> /\ t[1] \in CommandWords

\* A dot command as executor and parseInteractive read it; "unknown" includes the
\* usage of .dispatch and its invalid parameters, which only print a line.
Command(t) ==
  LET parts == SplitN(t) IN
    CASE parts[1] = <<".dispatch">> /\ Len(parts) > 1
           /\ (Len(parts) = 3 => TrimSpace(parts[3]) = <<Json>>) -> "dispatch"
      [] parts[1] = <<".reset">> -> "reset"
      [] parts[1] \in {<<".clear">>, <<".help">>} -> "text"
      [] parts[1] = <<".exit">> -> "exit"
      [] OTHER -> "unknown"

-----------------------------------------------------------------------------
(* The prompt. *)

AtPrompt == mode = "interactive" /\ step = "ready"

Type(piece) ==
  /\ AtPrompt
  /\ Len(text) + Len(piece) <= MaxText
  /\ IsDot(piece) => text = << >>
  /\ text' = text \o piece
  /\ Quiet /\ UNCHANGED <<opening, step, instance, running, multiLine, inMultiLine,
                          forwarding>>

\* A variant the runs must reject: Enter always executes.
executeAlways == TRUE

\* The callback of Enter: execute, or insert a newline.
shouldExecute ==
  IF inMultiLine THEN isComplete(multiLine \o <<"\n">> \o text)
  ELSE LET trimmed == TrimSpace(text) IN
         trimmed = << >> \/ IsDot(trimmed) \/ isComplete(trimmed)

NewLine ==
  /\ AtPrompt /\ ~shouldExecute
  /\ Len(text) < MaxText
  /\ text' = Append(text, "\n")
  /\ Quiet /\ UNCHANGED <<opening, step, instance, running, multiLine, inMultiLine,
                          forwarding>>

\* What executor runs, outside of a multi-line text.
Runs(t) ==
  \/ t = << >> /\ Quiet /\ UNCHANGED <<opening, step, instance, running>>
  \/ IsDot(t) /\ Command(t) = "dispatch" /\ Exec
  \/ IsDot(t) /\ Command(t) = "reset" /\ ExecReset
  \/ IsDot(t) /\ Command(t) = "text" /\ ExecText
  \/ IsDot(t) /\ Command(t) = "exit" /\ ExecExit
  \/ /\ IsDot(t) /\ Command(t) = "unknown"
     /\ screen' = ShownError(None, None, Plain, FALSE)
     /\ UNCHANGED <<opening, step, instance, running>>
  \/ t # << >> /\ ~IsDot(t) /\ Exec

\* executor, outside of a multi-line text: the text is run, or it begins one.
ExecutorBegins ==
  LET trimmed == TrimSpace(text)
      whole == trimmed = << >> \/ IsDot(trimmed) \/ isComplete(trimmed)
  IN /\ ~inMultiLine
     /\ \/ whole /\ Runs(trimmed) /\ UNCHANGED <<multiLine, inMultiLine>>
        \/ /\ ~whole /\ multiLine' = trimmed /\ inMultiLine' = TRUE
           /\ Quiet /\ UNCHANGED <<opening, step, instance, running>>

\* In one: it goes on until it is complete.
ExecutorGoesOn ==
  LET joined == multiLine \o <<"\n">> \o text IN
    /\ inMultiLine
    /\ \/ isComplete(joined) /\ Exec /\ multiLine' = << >> /\ inMultiLine' = FALSE
       \/ /\ ~isComplete(joined) /\ multiLine' = joined
          /\ Quiet /\ UNCHANGED <<opening, step, instance, running, inMultiLine>>

Execute ==
  /\ AtPrompt /\ shouldExecute
  /\ text' = << >>
  /\ ExecutorBegins \/ ExecutorGoesOn
  /\ earlier' = nextID
  /\ UNCHANGED <<nextID, reading, answeredBy, together>>

-----------------------------------------------------------------------------
(* The forwarder of the interactive mode. *)

\* A variant the runs must reject: the id is read before the counter is advanced.
forwardWithoutAdd ==
  /\ mode = "interactive" /\ step = "running" /\ wired
  /\ nextID < MaxRPCs
  /\ nextID' = nextID /\ reading' = reading \cup {nextID + 1}
  /\ together' = IF reading = {} THEN together ELSE together \cup reading'
  /\ Quiet /\ UNCHANGED <<opening, step, instance, running, input, earlier, answeredBy>>

\* An RPC (host.rpc) of the script reaches Forward, which prints it and reads stdin.
Forward ==
  /\ mode = "interactive" /\ step = "running" /\ wired
  /\ nextID < MaxRPCs
  /\ nextID' = nextID + 1 /\ reading' = reading \cup {nextID + 1}
  /\ together' = IF reading = {} THEN together ELSE together \cup reading'
  /\ Quiet /\ UNCHANGED <<opening, step, instance, running, input, earlier, answeredBy>>

\* A variant the runs must reject: the line is one that an earlier read had buffered.
respondFromBuffer(f, id) ==
  /\ step = "running" /\ f \in reading
  /\ reading' = reading \ {f}
  /\ answeredBy' = [answeredBy EXCEPT ![f] = id]
  /\ Quiet /\ UNCHANGED <<opening, step, instance, running, input, nextID, earlier,
                          together>>

\* A line with the response to id, which is open, is typed: one of those that read takes
\* it, and does not look at its id.
Respond(f, id) ==
  /\ step = "running" /\ {f, id} \subseteq reading
  /\ reading' = reading \ {f}
  /\ answeredBy' = [answeredBy EXCEPT ![f] = id]
  /\ Quiet /\ UNCHANGED <<opening, step, instance, running, input, nextID, earlier,
                          together>>

\* A line that is no response, such as one typed for the prompt, goes to a Forward that
\* reads, which ends with an error: it rejects its RPC, if the loop it was for is there.
LineLost(f) ==
  /\ step \in {"ready", "begun", "running"} /\ f \in reading
  /\ reading' = reading \ {f}
  /\ Quiet /\ UNCHANGED <<opening, step, instance, running, input, nextID, earlier,
                          answeredBy, together>>

\* The call returns: its RPC loop has drained all its RPCs, or was ended by an error at
\* the settlement of one of them (Instance), which stops no Forward.
EndsWith(r) ==
  /\ LET own == (earlier + 1)..nextID IN
       \/ own \cap reading = {}
       \/ r.error # NoError /\ own \ reading # {}
  /\ ExecEnds(r)
  /\ UNCHANGED <<input, forwarding>>

-----------------------------------------------------------------------------
(* The session in all its modes. *)

\* The modes other than the prompt.
TakeCommand ==
  /\ mode # "interactive"
  /\ \/ Exec
     \/ mode = "json" /\ ExecReset
  /\ UNCHANGED <<input, forwarding>>

GoesOn ==
  /\ SessionGoesOn
  /\ UNCHANGED <<input, forwarding>>

InteractiveNext ==
  \/ GoesOn \/ TakeCommand
  \/ \E piece \in Pieces : Type(piece)
  \/ NewLine \/ Execute
  \/ Forward
  \/ \E f, id \in 1..nextID : Respond(f, id)
  \/ \E f \in 1..nextID : LineLost(f)
  \/ \E r \in CallResults : EndsWith(r)

InteractiveSpec == InteractiveInit /\ [][InteractiveNext]_allvars
-----------------------------------------------------------------------------
(* Properties. *)

Brackets == {<<"(", ")">>, <<"[", "]">>}
MaxGrammar == MaxText + 1   \* a text and what ends it

\* A character of a string in quotes q, or one behind a backslash, before the others.
CharThen(q, rest) == {Cons(c, b) : c \in Chars \ {q, "backslash"}, b \in rest}
EscapedThen(rest) == {Cons("backslash", Cons(c, b)) : c \in Chars, b \in rest}

\* The insides of the strings in quotes q, by length.
Bodies[n \in 0..MaxGrammar] ==
  [q \in Quotes |->
     IF n = 0 THEN {<< >>}
     ELSE CharThen(q, Bodies[n - 1][q])
            \cup (IF n = 1 THEN {} ELSE EscapedThen(Bodies[n - 2][q]))]

\* A character, a string in quotes q or a text in brackets b, before the rest of a text.
PlainThen(rest) == {Cons(c, t) : c \in Space \cup {"x", Json}, t \in rest}
StringThen(q, inside, rest) == {Cons(q, b) \o Cons(q, t) : b \in inside, t \in rest}
BracketsThen(b, inside, rest) ==
  {Cons(b[1], u) \o Cons(b[2], t) : u \in inside, t \in rest}

\* The texts whose brackets and strings all end, by length.
Balanced[n \in 0..MaxGrammar] ==
  IF n = 0 THEN {<< >>}
  ELSE PlainThen(Balanced[n - 1])
         \cup (UNION {StringThen(q, Bodies[k][q], Balanced[n - 2 - k]) :
                        q \in Quotes, k \in 0..(n - 2)})
         \cup (UNION {BracketsThen(b, Balanced[k], Balanced[n - 2 - k]) :
                        b \in Brackets, k \in 0..(n - 2)})

BalancedTexts == UNION {Balanced[n] : n \in 0..MaxGrammar}

\* What can be missing at the end of a text that is not finished.
Endings == {<<c>> : c \in Closers \cup Quotes} \cup (Closers \X Closers) \cup (Quotes \X Closers)

\* Enter executes every text whose brackets and strings end, and no text that lacks
\* only closing ones; what the code makes of others, of comments and of regular
\* expressions is left open.
ReadsBrackets ==
  LET t == TrimSpace(text) IN
    (AtPrompt /\ t # << >> /\ ~IsDot(t)) =>
      /\ t \in BalancedTexts => shouldExecute
      /\ (t \notin BalancedTexts /\ \E s \in Endings : t \o s \in BalancedTexts)
           => ~shouldExecute

\* Enter and the executor decide alike: a text is only ever handed over whole, and the
\* multi-line state of the executor is never entered.
OneDecision == ~inMultiLine /\ multiLine = << >>

\* A Forward that waits alone gets the response to its own RPC.
CrossedOnlyTogether ==
  \A f \in 1..nextID : answeredBy[f] \in {0, f} \/ f \in together

\* Whatever the mode, an error is printed with the class its message has, and without one
\* exactly if it has none: neither classifier overrules the other, and no printer loses it.
LimitsShown ==
  screen.shows = "error" =>
    IF screen.code = None THEN RustCode(screen.message) = "runtime_error"
                          ELSE screen.code = RustCode(screen.message)

\* The Forwards read stdin while the executor runs, and the prompt does not.
ReadsWhilePaused == AtPrompt => reading = {}
=============================================================================
