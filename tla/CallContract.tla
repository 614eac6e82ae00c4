---------------------------- MODULE CallContract ----------------------------
(***************************************************************************)
(* What Eval, EvalCompiled and DispatchEvent promise to their caller, with *)
(* nothing of how: calls run one at a time; a script asks for answers and  *)
(* reports; an async call hands its value over only when every answer its  *)
(* script asked for has been given, a call whose script reported an error  *)
(* never hands over a value, and nothing of one call is left to the next.  *)
(* Host implements it (Host!Contract).                                     *)
(***************************************************************************)
EXTENDS Integers

CONSTANTS Ids, LastCall

VARIABLES
  open,         \* a call is running
  current,      \* its number, or that of the latest one; 0 is the prelude
  async,        \* the option of each call
  outstanding,  \* the answers the running script still waits for
  sawError,     \* its script reported an error
  sawValue,     \* its script reported a value
  outcome       \* what each call gave its caller

vars == <<open, current, async, outstanding, sawError, sawValue, outcome>>

Init ==
  /\ open \in BOOLEAN
  /\ current = 0
  /\ async = [c \in 0..LastCall |-> FALSE]
  /\ outstanding = {}
  /\ sawError = FALSE /\ sawValue = FALSE
  /\ outcome = [c \in 0..LastCall |-> IF c = 0 /\ ~open THEN "none" ELSE "open"]

Begin ==
  /\ ~open /\ current < LastCall
  /\ open' = TRUE
  /\ current' = current + 1
  /\ \E a \in BOOLEAN : async' = [async EXCEPT ![current + 1] = a]
  /\ outstanding' = {}
  /\ sawError' = FALSE /\ sawValue' = FALSE
  /\ UNCHANGED outcome

Ask(id) ==
  /\ open /\ id \notin outstanding
  /\ outstanding' = outstanding \cup {id}
  /\ UNCHANGED <<open, current, async, sawError, sawValue, outcome>>

Answer(id) ==
  /\ open /\ async[current] /\ id \in outstanding
  /\ outstanding' = outstanding \ {id}
  /\ UNCHANGED <<open, current, async, sawError, sawValue, outcome>>

Report(isError) ==
  /\ open
  /\ sawError' = (sawError \/ isError)
  /\ sawValue' = (sawValue \/ ~isError)
  /\ UNCHANGED <<open, current, async, outstanding, outcome>>

Finish(kind) ==
  /\ open /\ outcome[current] = "open"
  /\ outcome' = [outcome EXCEPT ![current] = kind]
  /\ open' = FALSE
  /\ outstanding' = {} /\ sawError' = FALSE /\ sawValue' = FALSE
  /\ UNCHANGED <<current, async>>

Served == async[current] => outstanding = {}

Next ==
  \/ Begin
  \/ \E id \in Ids : Ask(id) \/ Answer(id)
  \/ \E isError \in BOOLEAN : Report(isError)
  \/ Finish("failed")
  \/ sawError /\ Finish("error")
  \/ ~sawError /\ Served /\ sawValue /\ current # 0 /\ Finish("value")
  \/ ~sawError /\ Served /\ (sawValue => current = 0) /\ Finish("none")

Spec == Init /\ [][Next]_vars
=============================================================================
