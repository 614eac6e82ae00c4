---------------------------- MODULE JsonContract ----------------------------
(***************************************************************************)
(* What JSON mode promises to the peer, with nothing of how: each line is  *)
(* answered once, one at a time; a script is handed the reply to a request *)
(* at most once, after the peer gave it; the answer of a command that      *)
(* asked comes after a reply to one of its own requests was handed over;   *)
(* and the program ends when no line is left to answer.  JsonMode          *)
(* implements it (JsonMode!Contract).                                      *)
(***************************************************************************)
EXTENDS Integers

CONSTANT Requests

VARIABLES
  lines,      \* how many lines the peer has sent
  answers,    \* how many of them are answered
  executing,  \* the next one is a command, and runs
  askedBy,    \* the line whose command made each request, or 0
  replied,    \* the requests the peer has replied to
  handed,     \* those whose reply the script has got
  over        \* the program has ended

vars == <<lines, answers, executing, askedBy, replied, handed, over>>

Init ==
  /\ lines = 0 /\ answers = 0
  /\ executing = FALSE /\ over = FALSE
  /\ askedBy = [r \in Requests |-> 0]
  /\ replied = {} /\ handed = {}

Send ==
  /\ ~over
  /\ lines' = lines + 1
  /\ UNCHANGED <<answers, executing, askedBy, replied, handed, over>>

Begin ==
  /\ ~over /\ ~executing /\ answers < lines
  /\ executing' = TRUE
  /\ UNCHANGED <<lines, answers, askedBy, replied, handed, over>>

\* The answer to a line that is no command.
Reject ==
  /\ ~over /\ ~executing /\ answers < lines
  /\ answers' = answers + 1
  /\ UNCHANGED <<lines, executing, askedBy, replied, handed, over>>

Ask(r) ==
  /\ executing /\ askedBy[r] = 0
  /\ askedBy' = [askedBy EXCEPT ![r] = answers + 1]
  /\ UNCHANGED <<lines, answers, executing, replied, handed, over>>

Reply(r) ==
  /\ askedBy[r] # 0 /\ r \notin replied
  /\ replied' = replied \cup {r}
  /\ UNCHANGED <<lines, answers, executing, askedBy, handed, over>>

HandOver(r) ==
  /\ r \in replied /\ r \notin handed
  /\ handed' = handed \cup {r}
  /\ UNCHANGED <<lines, answers, executing, askedBy, replied, over>>

Asked == {r \in Requests : askedBy[r] = answers + 1}

Finish ==
  /\ executing
  /\ Asked = {} \/ Asked \cap handed # {}
  /\ executing' = FALSE
  /\ answers' = answers + 1
  /\ UNCHANGED <<lines, askedBy, replied, handed, over>>

End ==
  /\ ~over /\ ~executing /\ answers = lines
  /\ over' = TRUE
  /\ UNCHANGED <<lines, answers, executing, askedBy, replied, handed>>

Next ==
  \/ Send \/ Begin \/ Reject \/ Finish \/ End
  \/ \E r \in Requests : Ask(r) \/ Reply(r) \/ HandOver(r)

Spec == Init /\ [][Next]_vars
=============================================================================
