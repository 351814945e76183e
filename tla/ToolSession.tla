----------------------------- MODULE ToolSession -----------------------------
(***************************************************************************)
(* What one EDIT transcript promises, whatever stops the process: a tool   *)
(* call is shown before it is executed, executed at most once, and         *)
(* answered once and truthfully; nothing new is asked while an answer is   *)
(* missing, and nothing is added once the transcript is closed.            *)
(***************************************************************************)
EXTENDS Naturals

CONSTANTS Call   \* the tool calls the model may ask for

VARIABLES
    asked,    \* the calls in the durable transcript
    effects,  \* how often each call was executed
    answers,  \* the durable results: <<call, what the result says>>
    closed    \* the transcript ended

vars == <<asked, effects, answers, closed>>

\* What the model is told: the result, a refusal, or that nothing happened.
Says == {"result", "denied", "skipped"}

Answered(c) == \E says \in Says : <<c, says>> \in answers

Init ==
    /\ asked = {}
    /\ effects = [c \in Call |-> 0]
    /\ answers = {}
    /\ closed = FALSE

\* A tool runs only for a call that is on record and not answered yet, once.
Execute(c) ==
    /\ c \in asked /\ ~Answered(c) /\ ~closed
    /\ effects[c] = 0
    /\ effects' = [effects EXCEPT ![c] = 1]
    /\ UNCHANGED <<asked, answers, closed>>

\* The durable transcript grows: a batch that follows a complete one, results
\* of calls that were executed and refusals of calls that were not, and the end.
Publish ==
    /\ ~closed
    /\ asked \subseteq asked' /\ asked' \subseteq Call
    /\ asked' # asked => \A c \in asked : Answered(c)
    /\ answers \subseteq answers'
    /\ \A a \in answers' \ answers :
          /\ a \in asked' \X Says
          /\ ~Answered(a[1])
          /\ effects[a[1]] = (IF a[2] = "result" THEN 1 ELSE 0)
          /\ \A b \in answers' : b[1] = a[1] => b = a
    /\ closed' \in BOOLEAN
    /\ closed' => \A c \in asked' : Answered(c)'
    /\ UNCHANGED effects

Next == (\E c \in Call : Execute(c)) \/ Publish

Spec == Init /\ [][Next]_vars
==============================================================================
