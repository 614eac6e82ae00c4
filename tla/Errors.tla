------------------------------- MODULE Errors -------------------------------
(***************************************************************************)
(* How an error of a script travels to the user: the Rust side classifies  *)
(* its message and encodes it (error.rs, result.rs), parseErrorJSON        *)
(* decodes it and classifies it again (errors.go), and the CLI prints it,  *)
(* as JSON (json.go) or in colour (interactive.go).  Pure operators.       *)
(*                                                                         *)
(* A message is what the classifiers can tell of it: whether it is exactly *)
(* "interrupted", and whether it contains "out of memory" or "stack".      *)
(***************************************************************************)
EXTENDS Integers

Messages ==
  [exact : {TRUE}, oom : {FALSE}, stack : {FALSE}]
    \cup [exact : {FALSE}, oom : BOOLEAN, stack : BOOLEAN]

Plain == [exact |-> FALSE, oom |-> FALSE, stack |-> FALSE]

Names == {"Error", "InternalError"}
None == "none"

Codes == {"cpu_limit_exceeded", "memory_limit_exceeded", "stack_overflow", "runtime_error"}

\* classify_error_code of error.rs.
RustCode(msg) ==
  IF msg.exact THEN "cpu_limit_exceeded"
  ELSE IF msg.oom THEN "memory_limit_exceeded"
  ELSE IF msg.stack THEN "stack_overflow" ELSE "runtime_error"

\* classifyErrorCode of errors.go.
GoCode(msg) ==
  IF msg.exact THEN "cpu_limit_exceeded"
  ELSE IF msg.oom THEN "memory_limit_exceeded"
  ELSE IF msg.stack THEN "stack_overflow" ELSE "runtime_error"

JsError(name, msg, stack) ==
  [kind |-> "js_error", code |-> None, name |-> name, message |-> msg, stack |-> stack]
RuntimeError(code, msg) ==
  [kind |-> "runtime_error", code |-> code, name |-> None, message |-> msg, stack |-> FALSE]

\* An error of Go's own: a trap, no memory for a buffer, an instance not made.
GoError == [kind |-> "go", code |-> None, name |-> None, message |-> Plain, stack |-> FALSE]

\* send_exception and promise_reject_cb, for what a script throws or rejects with.
Sent(name, msg, stack) ==
  IF RustCode(msg) # "runtime_error" THEN RuntimeError(RustCode(msg), msg)
                                     ELSE JsError(name, msg, stack)

\* A variant the runs must reject: the second classification looks at every error.
parseReclassifying(e) ==
  IF e.kind = "runtime_error"
  THEN RuntimeError(IF e.message.stack THEN "stack_overflow" ELSE GoCode(e.message), e.message)
  ELSE e

\* parseErrorJSON: a runtime error without a class of its own is classified again.
Parse(e) ==
  IF e.kind = "runtime_error" /\ e.code = "runtime_error"
  THEN RuntimeError(GoCode(e.message), e.message)
  ELSE e

\* What the guest sends: of a script, or the fixed messages of its own (a settlement
\* function that throws, a source with a null byte).
GuestErrors ==
  {Sent(name, msg, stack) : name \in Names, msg \in Messages, stack \in BOOLEAN}
    \cup {RuntimeError("runtime_error", Plain)}

-----------------------------------------------------------------------------
(* Results, and what is printed of them: text, or a value, or an error with its      *)
(* class and fields; Blank is a screen on which nothing new appeared.                *)

NoError == [kind |-> "nil", code |-> None, name |-> None, message |-> Plain, stack |-> FALSE]
TextResult == [text |-> TRUE, error |-> NoError, value |-> None]
ErrorResult(e) == [text |-> FALSE, error |-> e, value |-> None]
ValueResult(v) == [text |-> FALSE, error |-> NoError, value |-> v]

\* What a call of a script can end with: Go's nil value, a value, or an error.
CallResults ==
  {ValueResult(v) : v \in {None, "value"}}
    \cup {ErrorResult(e) : e \in {Parse(g) : g \in GuestErrors} \cup {GoError}}

Blank == [shows |-> "blank"]
Shown(what) == [shows |-> what]
ShownError(code, name, msg, stack) ==
  [shows |-> "error", code |-> code, name |-> name, message |-> msg, stack |-> stack]

\* printJSON: one object, with the fields that apply.
printJSON(r) ==
  IF r.error # NoError
  THEN ShownError(r.error.code, r.error.name, r.error.message, r.error.stack)
  ELSE IF r.text THEN Shown("text") ELSE Shown(r.value)

\* printInteractive: a text ends the print, and the class of an error is the prefix of
\* its line.
printInteractive(r) ==
  IF r.text THEN Shown("text")
  ELSE IF r.error = NoError THEN Shown(r.value)
  ELSE IF r.error.kind = "js_error"
       THEN ShownError(None, r.error.name, r.error.message, r.error.stack)
  ELSE IF r.error.kind = "runtime_error"
       THEN ShownError(r.error.code, None, r.error.message, FALSE)
       ELSE ShownError(None, None, r.error.message, FALSE)

Screens ==
  {Blank} \cup {Shown(what) : what \in {"text", None, "value"}}
    \cup {ShownError(code, name, msg, stack) :
            code \in Codes \cup {None}, name \in Names \cup {None}, msg \in Messages,
            stack \in BOOLEAN}
=============================================================================
