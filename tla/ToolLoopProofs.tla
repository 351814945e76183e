--------------------------- MODULE ToolLoopProofs ---------------------------
(***************************************************************************)
(* The tool loop keeps the promises of ToolSession for every batch, every  *)
(* limit and any number of crashes, failed writes and outside edits; it    *)
(* stays within its budgets, and refuses to go on only for a cause.        *)
(***************************************************************************)
EXTENDS ToolLoop, FiniteSetTheorems, FunctionTheorems, TLAPS

Waiting == {"open", "loop", "stuck"}
Acting  == {"exec", "begun", "ran", "completed"}
Busy    == {"call"} \cup Acting

\* A transcript: answers are for calls it holds, one each; unless it is
\* pending all of them are there, and if it is only its last batch lacks some.
WellFormed(t) ==
    /\ \A a \in t.answers : a[1] \in AllCalls(t)
    /\ \A a, b \in t.answers : a[1] = b[1] => a = b
    /\ \A s \in 1 .. MaxSteps : s > t.steps => t.batch[s] = <<>>
    /\ ~t.pending => AllCalls(t) \subseteq Completed(t)
    /\ t.pending =>
          /\ t.outcome = "open"
          /\ t.steps \in 1 .. MaxSteps
          /\ t.batch[t.steps] # <<>>
          /\ \A c \in AllCalls(t) : c[1] # t.steps => c \in Completed(t)

\* An answer says what the journal says of its call.
Truthful(t) ==
    \A a \in t.answers :
        journal[a[1]].state = IF a[2] = "skipped" THEN "none" ELSE a[2]

\* The journal says what happened, and only calls on record are in it.
Journalled ==
    \A c \in Call :
        /\ runs[c] \in {0, 1}
        /\ journal[c].state \in {"none", "denied"} => runs[c] = 0
        /\ journal[c].state = "result" => runs[c] = 1
        /\ journal[c].state # "none" => c \in AllCalls(saved)

\* t may replace the saved transcript.
Extends(t) ==
    /\ t \in Transcript
    /\ WellFormed(t) /\ Truthful(t)
    /\ saved.outcome = "open"
    /\ saved.answers \subseteq t.answers
    /\ AllCalls(saved) \subseteq AllCalls(t)
    /\ AllCalls(saved) # AllCalls(t) => AllCalls(saved) \subseteq Completed(saved)

\* The batch being taken: the calls before pos are answered, those after it
\* have not been touched, done is alone, and the journal knows how far pos is.
InBatch ==
    /\ mem.steps \in 1 .. MaxSteps
    /\ pos \in 1 .. Len(mem.batch[mem.steps])
    /\ \A k \in 1 .. Len(mem.batch[mem.steps]) :
          /\ <<mem.steps, k>> \in Completed(mem) <=> k < pos
          /\ k > pos => journal[<<mem.steps, k>>].state = "none"
          /\ mem.batch[mem.steps][k] = "done" => Len(mem.batch[mem.steps]) = 1
    /\ pc \in {"call", "exec"} => journal[Current].state = "none"
    /\ pc \in {"begun", "ran"} => journal[Current].state = "begun"
    /\ pc = "begun" => runs[Current] = 0
    /\ pc = "ran" => runs[Current] = IF KindOf(mem, Current) = "denied" THEN 0 ELSE 1
    /\ pc = "completed" => journal[Current].state \in {"result", "denied"}

Control ==
    /\ pc \in {"reconcile"} \cup Waiting \cup Acting =>
          mem = saved /\ saved.outcome = "open"
    /\ pc \in {"reconcile"} \cup Acting => saved.pending
    /\ pc \in Waiting => ~saved.pending
    /\ pc = "call" =>
          /\ mem.outcome = "open" /\ saved.outcome = "open"
          /\ \/ mem = saved /\ saved.pending
             \/ /\ ~saved.pending /\ mem.answers = saved.answers
                /\ mem.steps = saved.steps + 1
                /\ \A s \in 1 .. MaxSteps :
                      IF s = mem.steps THEN mem.batch[s] # <<>>
                      ELSE mem.batch[s] = saved.batch[s]
    /\ pc \in Busy => InBatch
    /\ pc = "stopping" => Extends(mem)

LoopInv ==
    TypeInv /\ WellFormed(saved) /\ Truthful(saved) /\ Journalled /\ Control

-----------------------------------------------------------------------------
\* The length of a batch, whatever step it belongs to.
LEMMA BatchLength ==
    ASSUME NEW t \in Transcript, NEW s \in 1 .. MaxSteps
    PROVE  /\ t.batch[s] \in Seq(Kind)
           /\ Len(t.batch[s]) \in 0 .. MaxCalls
           /\ t.batch[s] # <<>> => Len(t.batch[s]) \in 1 .. MaxCalls
<1>1. t.batch[s] \in Batches \cup {<<>>}
  BY DEF Transcript
<1>2. CASE t.batch[s] \in Batches
  BY <1>2, BatchesAssumption, LimitsAssumption
<1>3. CASE t.batch[s] = <<>>
  BY <1>3, LimitsAssumption
<1> QED BY <1>1, <1>2, <1>3

\* An answer is a call and what the model is told of it.
LEMMA AnswerPairs ==
    ASSUME NEW t \in Transcript
    PROVE  /\ \A a \in t.answers : a \in Call \X Says /\ a = <<a[1], a[2]>>
           /\ \A c : c \in Completed(t) <=> \E says \in Says : <<c, says>> \in t.answers
<1>1. t.answers \subseteq Call \X Says
  BY DEF Transcript
<1>2. \A a \in t.answers : a \in Call \X Says /\ a[1] \in Call /\ a[2] \in Says /\ a = <<a[1], a[2]>>
  BY <1>1
<1>3. ASSUME NEW c
      PROVE  c \in Completed(t) <=> \E says \in Says : <<c, says>> \in t.answers
  <2>1. ASSUME c \in Completed(t)
        PROVE  \E says \in Says : <<c, says>> \in t.answers
    <3>1. PICK a \in t.answers : c = a[1]
      BY <2>1 DEF Completed
    <3>2. a[2] \in Says /\ <<c, a[2]>> \in t.answers
      BY <1>2, <3>1
    <3> QED BY <3>2
  <2>2. ASSUME NEW says \in Says, <<c, says>> \in t.answers
        PROVE  c \in Completed(t)
    <3>1. <<c, says>>[1] = c
      OBVIOUS
    <3> QED BY <2>2, <3>1 DEF Completed
  <2> QED BY <2>1, <2>2
<1> QED BY <1>2, <1>3

\* Saving an extension of the saved transcript is a step of the session and
\* leaves a transcript as good as the old one.
LEMMA Publishing ==
    ASSUME LoopInv, NEW STATE t, Extends(t), saved' = t, UNCHANGED <<runs, journal>>
    PROVE  /\ WellFormed(saved') /\ Truthful(saved)' /\ Journalled'
           /\ Session!Publish
<1> USE DEF LoopInv, TypeInv
<1>1. WellFormed(saved') /\ Truthful(saved)'
  BY DEF Extends, Truthful
<1>2. Journalled'
  BY DEF Extends, Journalled
<1>3. /\ saved.answers \subseteq saved'.answers
      /\ AllCalls(saved) \subseteq AllCalls(saved')
      /\ AllCalls(saved') \subseteq Call
  BY DEF Extends, AllCalls
<1>4. saved \in Transcript /\ saved' \in Transcript
  BY DEF Extends
<1>5. \A a \in saved'.answers : a \in Call \X Says /\ a = <<a[1], a[2]>>
  BY <1>4, AnswerPairs
<1>6. \A c : c \in Completed(saved) => \E says \in Says : <<c, says>> \in saved.answers
  BY <1>4, AnswerPairs
<1>7. \A c : c \in Completed(saved') => \E says \in Says : <<c, says>> \in saved'.answers
  BY <1>4, AnswerPairs
<1>8. AllCalls(saved') # AllCalls(saved) =>
        \A c \in AllCalls(saved) : \E says \in Says : <<c, says>> \in saved.answers
  BY <1>6 DEF Extends
<1>9. saved'.outcome # "open" =>
        \A c \in AllCalls(saved') : \E says \in Says : <<c, says>> \in saved'.answers
  BY <1>1, <1>7 DEF WellFormed
<1>10. ASSUME NEW a \in saved'.answers, a \notin saved.answers
       PROVE  /\ a \in AllCalls(saved') \X Says
              /\ ~\E says \in Says : <<a[1], says>> \in saved.answers
              /\ runs[a[1]] = IF a[2] = "result" THEN 1 ELSE 0
              /\ \A b \in saved'.answers : b[1] = a[1] => b = a
  <2>1. a \in Call \X Says /\ a = <<a[1], a[2]>>
    BY <1>5, <1>10
  <2>2. a[1] \in AllCalls(saved')
    BY <1>1, <1>10 DEF WellFormed
  <2>3. \A b \in saved'.answers : b[1] = a[1] => b = a
    BY <1>1, <1>10 DEF WellFormed
  <2>4. ~\E says \in Says : <<a[1], says>> \in saved.answers
    <3> SUFFICES ASSUME NEW says \in Says, <<a[1], says>> \in saved.answers PROVE FALSE
      OBVIOUS
    <3>1. <<a[1], says>> \in saved'.answers
      BY <1>3
    <3>2. <<a[1], says>>[1] = a[1]
      OBVIOUS
    <3> QED BY <3>1, <3>2, <2>3, <1>10
  <2>5. journal[a[1]].state = IF a[2] = "skipped" THEN "none" ELSE a[2]
    BY <1>1, <1>10 DEF Truthful
  <2>6. runs[a[1]] = IF a[2] = "result" THEN 1 ELSE 0
    BY <2>1, <2>5 DEF Journalled, Says
  <2> QED BY <2>1, <2>2, <2>3, <2>4, <2>6
<1>11. Session!Publish
  BY <1>3, <1>8, <1>9, <1>10
  DEF Session!Publish, Session!Answered, Session!Says, Says, Extends
<1> QED BY <1>1, <1>2, <1>11

\* The manifest a transcript is stamped with does not matter to the session.
LEMMA Stamped ==
    ASSUME NEW STATE t, Extends(t), NEW STATE m, m \in Trees \cup {None}
    PROVE  Extends([t EXCEPT !.cand = m])
<1> DEFINE u == [t EXCEPT !.cand = m]
<1>1. t \in Transcript
  BY DEF Extends
<1>2. u \in Transcript
  BY <1>1 DEF Transcript
<1>3. /\ u.answers = t.answers /\ u.batch = t.batch /\ u.steps = t.steps
      /\ u.pending = t.pending /\ u.outcome = t.outcome
  BY <1>1 DEF Transcript
<1>4. AllCalls(u) = AllCalls(t) /\ Completed(u) = Completed(t)
  BY <1>3 DEF AllCalls, Completed
<1>5. WellFormed(u) /\ Truthful(u)
  BY <1>3, <1>4 DEF Extends, WellFormed, Truthful
<1> HIDE DEF u
<1>6. Extends(u)
  BY <1>2, <1>3, <1>4, <1>5 DEF Extends
<1> QED BY <1>6 DEF u

\* What every write of the transcript does, whether it succeeds or fails.
LEMMA Saving ==
    ASSUME LoopInv, NEW STATE t, Extends(t), NEW STATE next, next \in Place,
           Save(t, next), UNCHANGED <<journal, tree, runs, drifts>>
    PROVE  /\ saved' \in Transcript /\ mem' \in Transcript
           /\ WellFormed(saved') /\ Truthful(saved)' /\ Journalled'
           /\ faults' \in 0 .. MaxFaults /\ pc' \in Place
           /\ [Session!Next]_(Session!vars)
           /\ \/ pc' = next /\ mem' = saved' /\ saved' = [t EXCEPT !.cand = tree]
              \/ pc' = "stopping" /\ Extends(mem)'
<1> USE DEF LoopInv, TypeInv
<1>1. CASE /\ mem' = [t EXCEPT !.cand = tree]
           /\ saved' = mem'
           /\ pc' = next
           /\ UNCHANGED faults
  <2>1. Extends([t EXCEPT !.cand = tree])
    BY Stamped
  <2>2. saved' = [t EXCEPT !.cand = tree]
    BY <1>1
  <2>3. WellFormed(saved') /\ Truthful(saved)' /\ Journalled' /\ Session!Publish
    BY <2>1, <2>2, Publishing
  <2>4. saved' \in Transcript
    BY <2>1, <2>2 DEF Extends
  <2> QED BY <1>1, <2>2, <2>3, <2>4 DEF Session!Next
<1>2. CASE /\ Fault
           /\ \E m \in {tree, None} : mem' = [t EXCEPT !.cand = m]
           /\ pc' = "stopping"
           /\ UNCHANGED saved
  <2>1. PICK m \in {tree, None} : mem' = [t EXCEPT !.cand = m]
    BY <1>2
  <2>2. Extends([t EXCEPT !.cand = m])
    BY Stamped
  <2>3. Extends(mem)'
    BY <1>2, <2>1, <2>2 DEF Extends, Truthful
  <2>4. WellFormed(saved') /\ Truthful(saved)' /\ Journalled'
    BY <1>2 DEF Truthful, Journalled
  <2>5. UNCHANGED Session!vars
    BY <1>2 DEF Session!vars
  <2>6. faults' \in 0 .. MaxFaults
    BY <1>2, LimitsAssumption DEF Fault
  <2> QED BY <1>2, <2>3, <2>4, <2>5, <2>6 DEF Extends, Place
<1> QED BY <1>1, <1>2 DEF Save

\* Outside a batch the loop saves no new call and no new answer.
LEMMA Quiet ==
    ASSUME LoopInv, saved.outcome = "open", ~saved.pending,
           NEW STATE t, t \in Transcript, t.batch = saved.batch,
           t.answers = saved.answers, t.steps >= saved.steps, ~t.pending
    PROVE  Extends(t)
<1>1. AllCalls(t) = AllCalls(saved) /\ Completed(t) = Completed(saved)
  BY DEF AllCalls, Completed
<1>2. saved \in Transcript
  BY DEF LoopInv, TypeInv
<1>3. saved.steps \in Nat /\ t.steps \in Nat
  BY <1>2, LimitsAssumption DEF Transcript
<1>4. WellFormed(t)
  BY <1>1, <1>3, LimitsAssumption DEF LoopInv, WellFormed
<1>5. Truthful(t)
  BY DEF LoopInv, Truthful
<1> QED BY <1>1, <1>4, <1>5 DEF Extends

\* What has to be shown of a step.
Kept == LoopInv' /\ [Session!Next]_(Session!vars)

\* A write that ends a batch, an attempt or a reconciliation.
LEMMA AfterSave ==
    ASSUME LoopInv, NEW STATE t, Extends(t),
           NEW STATE next, next \in {"idle"} \cup Waiting,
           next # "idle" => t.outcome = "open" /\ ~t.pending,
           Save(t, next), UNCHANGED <<journal, tree, runs, pos, drifts>>
    PROVE  Kept
<1>1. next \in Place
  BY DEF Place, Waiting
<1>2. /\ saved' \in Transcript /\ mem' \in Transcript
      /\ WellFormed(saved') /\ Truthful(saved)' /\ Journalled'
      /\ faults' \in 0 .. MaxFaults /\ pc' \in Place
      /\ [Session!Next]_(Session!vars)
      /\ \/ pc' = next /\ mem' = saved' /\ saved' = [t EXCEPT !.cand = tree]
         \/ pc' = "stopping" /\ Extends(mem)'
  BY <1>1, Saving
<1>3. TypeInv'
  BY <1>2 DEF LoopInv, TypeInv
<1>4. Control'
  <2>1. CASE pc' = next /\ mem' = saved' /\ saved' = [t EXCEPT !.cand = tree]
    <3>1. saved'.outcome = t.outcome /\ saved'.pending = t.pending
      BY <2>1 DEF Extends, Transcript
    <3> QED BY <2>1, <3>1 DEF Control, Waiting, Acting, Busy
  <2>2. CASE pc' = "stopping" /\ Extends(mem)'
    BY <2>2 DEF Control, Waiting, Acting, Busy
  <2> QED BY <1>2, <2>1, <2>2
<1> QED BY <1>2, <1>3, <1>4 DEF Kept, LoopInv

\* Step returns an error with a transcript that may replace the saved one.
LEMMA AfterReturn ==
    ASSUME LoopInv, NEW STATE t, Extends(t), Return(t),
           faults' \in 0 .. MaxFaults, UNCHANGED <<journal, tree, runs, pos, drifts>>
    PROVE  Kept
<1>1. Extends(mem)'
  BY DEF Return, Extends, Truthful
<1>2. TypeInv'
  BY DEF Return, Extends, LoopInv, TypeInv, Place
<1>3. WellFormed(saved') /\ Truthful(saved)' /\ Journalled'
  BY DEF Return, LoopInv, Truthful, Journalled
<1>4. Control'
  BY <1>1 DEF Return, Control, Waiting, Acting, Busy
<1>5. UNCHANGED Session!vars
  BY DEF Return, Session!vars
<1> QED BY <1>2, <1>3, <1>4, <1>5 DEF Kept, LoopInv

\* A failed write, a dead provider or a passed deadline is one more fault.
LEMMA FaultCounted ==
    ASSUME TypeInv, Fault PROVE faults' \in 0 .. MaxFaults
BY LimitsAssumption DEF TypeInv, Fault

LEMMA EnterKeeps == LoopInv /\ Enter => Kept
<1> SUFFICES ASSUME LoopInv, Enter PROVE Kept
  OBVIOUS
<1>1. TypeInv'
  BY DEF LoopInv, TypeInv, Enter, Place
<1>2. WellFormed(saved') /\ Truthful(saved)' /\ Journalled'
  BY DEF LoopInv, Enter, Truthful, Journalled
<1>3. Control'
  BY DEF Enter, Control, Waiting, Acting, Busy
<1>4. UNCHANGED Session!vars
  BY DEF Enter, Session!vars
<1> QED BY <1>1, <1>2, <1>3, <1>4 DEF Kept, LoopInv

LEMMA OpenKeeps == LoopInv /\ Open => Kept
<1> SUFFICES ASSUME LoopInv, Open PROVE Kept
  OBVIOUS
<1> DEFINE t == [mem EXCEPT !.seeded = TRUE]
<1>1. mem = saved /\ saved.outcome = "open" /\ ~saved.pending /\ mem \in Transcript
  BY DEF LoopInv, TypeInv, Control, Open, Waiting
<1>2. /\ t \in Transcript /\ t.batch = saved.batch /\ t.answers = saved.answers
      /\ t.steps = saved.steps /\ ~t.pending /\ t.outcome = "open"
  BY <1>1 DEF Transcript
<1> HIDE DEF t
<1>3. Extends(t)
  <2>1. saved.steps \in 0 .. MaxSteps
    BY <1>1 DEF Transcript
  <2> QED BY <1>1, <1>2, <2>1, Quiet, LimitsAssumption
<1>4. Save(t, "loop") /\ UNCHANGED <<journal, tree, runs, pos, drifts>>
  BY DEF Open, t
<1> QED BY <1>1, <1>2, <1>3, <1>4, AfterSave DEF Waiting

\* Both ways a question may end without a batch leave the messages alone.
LEMMA AskedQuietly ==
    ASSUME LoopInv, pc \in {"loop", "stuck"}, NEW o \in {"open", "done", "stopped", "exhausted"}
    PROVE  /\ Extends([mem EXCEPT !.outcome = o])
           /\ Extends(mem)
           /\ mem.steps < MaxSteps => /\ Extends([Asked EXCEPT !.outcome = o])
                                      /\ Extends(Asked)
<1>1. mem = saved /\ saved.outcome = "open" /\ ~saved.pending /\ mem \in Transcript
  BY DEF LoopInv, TypeInv, Control, Waiting
<1>2. mem.steps \in 0 .. MaxSteps
  BY <1>1 DEF Transcript
<1>3. Extends([mem EXCEPT !.outcome = o])
  <2> DEFINE t == [mem EXCEPT !.outcome = o]
  <2>1. /\ t \in Transcript /\ t.batch = saved.batch /\ t.answers = saved.answers
        /\ t.steps = saved.steps /\ t.pending = saved.pending
    BY <1>1 DEF Transcript
  <2> HIDE DEF t
  <2>2. Extends(t)
    BY <1>1, <1>2, <2>1, Quiet, LimitsAssumption
  <2> QED BY <2>2 DEF t
<1>4. Extends(mem)
  BY <1>1, <1>2, Quiet, LimitsAssumption
<1>5. ASSUME mem.steps < MaxSteps
      PROVE  Extends([Asked EXCEPT !.outcome = o]) /\ Extends(Asked)
  <2> DEFINE t == [Asked EXCEPT !.outcome = o]
  <2>1. /\ Asked \in Transcript /\ Asked.batch = saved.batch /\ Asked.answers = saved.answers
        /\ Asked.steps = saved.steps + 1 /\ ~Asked.pending
    <3>1. saved.steps + 1 \in 0 .. MaxSteps
      BY <1>1, <1>2, <1>5, LimitsAssumption
    <3> QED BY <1>1, <3>1 DEF Transcript, Asked
  <2>2. /\ t \in Transcript /\ t.batch = saved.batch /\ t.answers = saved.answers
        /\ t.steps = saved.steps + 1 /\ ~t.pending
    BY <2>1 DEF Transcript
  <2> HIDE DEF t
  <2>3. Extends(t) /\ Extends(Asked)
    BY <1>1, <1>2, <2>1, <2>2, Quiet, LimitsAssumption
  <2> QED BY <2>3 DEF t
<1> QED BY <1>3, <1>4, <1>5

LEMMA ConcludeKeeps == LoopInv /\ Conclude => Kept
<1> SUFFICES ASSUME LoopInv, Conclude PROVE Kept
  OBVIOUS
<1>1. pc = "loop" /\ UNCHANGED <<journal, tree, runs, pos, drifts>>
  BY DEF Conclude
<1>2. ASSUME NEW o \in {"stopped", "exhausted"}, Save([mem EXCEPT !.outcome = o], "idle")
      PROVE  Kept
  BY <1>1, <1>2, AskedQuietly, AfterSave
<1>3. ASSUME mem.steps < MaxSteps, Save([Asked EXCEPT !.outcome = "stopped"], "idle")
      PROVE  Kept
  BY <1>1, <1>3, AskedQuietly, AfterSave
<1> QED BY <1>2, <1>3 DEF Conclude, Finish

LEMMA StuckKeeps == LoopInv /\ Stuck => Kept
<1> SUFFICES ASSUME LoopInv, Stuck PROVE Kept
  OBVIOUS
<1>1. pc = "stuck" /\ UNCHANGED <<journal, tree, runs, pos, drifts>>
  BY DEF Stuck
<1>2. Save([mem EXCEPT !.outcome = "stopped"], "idle")
  BY DEF Stuck, Finish
<1> QED BY <1>1, <1>2, AskedQuietly, AfterSave

LEMMA AbandonKeeps == LoopInv /\ Abandon => Kept
<1> SUFFICES ASSUME LoopInv, Abandon PROVE Kept
  OBVIOUS
<1>1. pc = "loop" /\ mem.steps < MaxSteps /\ UNCHANGED <<journal, tree, runs, pos, drifts>>
  BY DEF Abandon
<1>2. Extends(mem) /\ Extends(Asked)
  BY <1>1, AskedQuietly
<1>3. CASE Fault /\ Return(mem)
  <2>1. faults' \in 0 .. MaxFaults
    BY <1>3, FaultCounted DEF LoopInv
  <2> QED BY <1>1, <1>2, <1>3, <2>1, AfterReturn
<1>4. CASE Return(Asked) /\ UNCHANGED faults
  <2>1. faults' \in 0 .. MaxFaults
    BY <1>4 DEF LoopInv, TypeInv
  <2> QED BY <1>1, <1>2, <1>4, <2>1, AfterReturn
<1> QED BY <1>3, <1>4 DEF Abandon

LEMMA StopKeeps == LoopInv /\ Stop => Kept
<1> SUFFICES ASSUME LoopInv, Stop PROVE Kept
  OBVIOUS
<1>1. Extends(mem) /\ saved' = mem /\ pc' = "idle"
  BY DEF LoopInv, Control, Stop
<1>2. WellFormed(saved') /\ Truthful(saved)' /\ Journalled' /\ Session!Publish
  BY <1>1, Publishing DEF Stop
<1>3. TypeInv'
  BY <1>1 DEF LoopInv, TypeInv, Stop, Place
<1>4. Control'
  BY <1>1 DEF Control, Waiting, Acting, Busy
<1> QED BY <1>2, <1>3, <1>4 DEF Kept, LoopInv, Session!Next

LEMMA CrashKeeps == LoopInv /\ Crash => Kept
<1> SUFFICES ASSUME LoopInv, Crash PROVE Kept
  OBVIOUS
<1>1. faults' \in 0 .. MaxFaults
  BY FaultCounted DEF LoopInv, Crash
<1>2. TypeInv'
  BY <1>1 DEF LoopInv, TypeInv, Crash, Place
<1>3. WellFormed(saved') /\ Truthful(saved)' /\ Journalled' /\ UNCHANGED Session!vars
  BY DEF LoopInv, Crash, Truthful, Journalled, Session!vars
<1>4. Control'
  BY DEF Crash, Control, Waiting, Acting, Busy
<1> QED BY <1>2, <1>3, <1>4 DEF Kept, LoopInv

LEMMA DriftKeeps == LoopInv /\ Drift => Kept
<1> SUFFICES ASSUME LoopInv, Drift PROVE Kept
  OBVIOUS
<1>1. TypeInv'
  BY LimitsAssumption DEF LoopInv, TypeInv, Drift
<1>2. WellFormed(saved') /\ Truthful(saved)' /\ Journalled' /\ UNCHANGED Session!vars
  BY DEF LoopInv, Drift, Truthful, Journalled, Session!vars
<1>3. Extends(mem) => Extends(mem)'
  BY DEF Drift, Extends, Truthful
<1>4. InBatch => InBatch'
  BY DEF Drift, InBatch, Current
<1>5. Control'
  BY <1>3, <1>4 DEF LoopInv, Drift, Control
<1> QED BY <1>1, <1>2, <1>5 DEF Kept, LoopInv

-----------------------------------------------------------------------------
\* t is the pending transcript b with what the journal says of the calls K of
\* its last batch; without a gap t need not be pending any more.
Answers(b, t, K, says) ==
    /\ Extends(b) /\ b.pending
    /\ t \in Transcript /\ t.batch = b.batch /\ t.steps = b.steps
    /\ K \subseteq 1 .. Len(b.batch[b.steps])
    /\ says \in [K -> Says]
    /\ t.answers = b.answers \cup {<<<<b.steps, k>>, says[k]>> : k \in K}
    /\ \A k \in K :
          /\ <<b.steps, k>> \notin Completed(b)
          /\ journal[<<b.steps, k>>].state =
                IF says[k] = "skipped" THEN "none" ELSE says[k]
    /\ t.pending => t.outcome = "open"
    /\ ~t.pending => \A k \in 1 .. Len(b.batch[b.steps]) :
                        k \in K \/ <<b.steps, k>> \in Completed(b)

\* Such a transcript may be saved.
LEMMA Answering ==
    ASSUME NEW STATE b, NEW STATE t, NEW STATE K, NEW STATE says, Answers(b, t, K, says)
    PROVE  Extends(t)
<1>0. /\ Extends(b) /\ b.pending
      /\ t \in Transcript /\ t.batch = b.batch /\ t.steps = b.steps
      /\ K \subseteq 1 .. Len(b.batch[b.steps])
      /\ says \in [K -> Says]
      /\ t.answers = b.answers \cup {<<<<b.steps, k>>, says[k]>> : k \in K}
      /\ \A k \in K :
            /\ <<b.steps, k>> \notin Completed(b)
            /\ journal[<<b.steps, k>>].state =
                  IF says[k] = "skipped" THEN "none" ELSE says[k]
      /\ t.pending => t.outcome = "open"
      /\ ~t.pending => \A k \in 1 .. Len(b.batch[b.steps]) :
                          k \in K \/ <<b.steps, k>> \in Completed(b)
  BY DEF Answers
<1> USE <1>0
<1>1. b \in Transcript /\ WellFormed(b) /\ Truthful(b)
  BY DEF Extends
<1>2. b.steps \in 1 .. MaxSteps
  BY <1>1 DEF WellFormed
<1>3. AllCalls(t) = AllCalls(b)
  BY DEF AllCalls
<1>4. \A a \in t.answers : a \in b.answers \/ \E k \in K : a = <<<<b.steps, k>>, says[k]>>
  OBVIOUS
<1>5. ASSUME NEW k \in K
      PROVE  /\ <<b.steps, k>> \in AllCalls(b)
             /\ <<<<b.steps, k>>, says[k]>>[1] = <<b.steps, k>>
             /\ <<<<b.steps, k>>, says[k]>>[2] = says[k]
  <2>1. Len(b.batch[b.steps]) \in 0 .. MaxCalls
    BY <1>1, <1>2, BatchLength
  <2>2. <<b.steps, k>> \in Call
    BY <1>2, <2>1, LimitsAssumption DEF Call
  <2> QED BY <2>2, <2>1, LimitsAssumption DEF AllCalls
<1>6. \A a \in t.answers : a[1] \in AllCalls(t)
  BY <1>1, <1>3, <1>4, <1>5 DEF WellFormed
<1>7. \A a \in b.answers : a[1] \in Completed(b)
  BY DEF Completed
<1>8. ASSUME NEW a \in t.answers, NEW d \in t.answers, a[1] = d[1]
      PROVE  a = d
  <2>1. CASE a \in b.answers /\ d \in b.answers
    BY <1>1, <1>8, <2>1 DEF WellFormed
  <2>2. CASE a \in b.answers /\ \E k \in K : d = <<<<b.steps, k>>, says[k]>>
    BY <1>5, <1>7, <1>8, <2>2
  <2>3. CASE d \in b.answers /\ \E k \in K : a = <<<<b.steps, k>>, says[k]>>
    BY <1>5, <1>7, <1>8, <2>3
  <2>4. CASE /\ \E k \in K : a = <<<<b.steps, k>>, says[k]>>
             /\ \E k \in K : d = <<<<b.steps, k>>, says[k]>>
    <3>1. PICK k \in K : a = <<<<b.steps, k>>, says[k]>>
      BY <2>4
    <3>2. PICK j \in K : d = <<<<b.steps, j>>, says[j]>>
      BY <2>4
    <3>3. <<b.steps, k>> = <<b.steps, j>>
      BY <1>5, <1>8, <3>1, <3>2
    <3> QED BY <3>1, <3>2, <3>3
  <2> QED BY <1>4, <1>8, <2>1, <2>2, <2>3, <2>4
<1>9. Completed(b) \subseteq Completed(t)
  BY DEF Completed
<1>10. ASSUME NEW k \in K PROVE <<b.steps, k>> \in Completed(t)
  <2>1. <<<<b.steps, k>>, says[k]>> \in t.answers
    OBVIOUS
  <2> QED BY <1>5, <2>1 DEF Completed
<1>11. ASSUME ~t.pending, NEW c \in AllCalls(t)
       PROVE  c \in Completed(t)
  <2>1. CASE c[1] # b.steps
    BY <1>1, <1>3, <1>9, <1>11, <2>1 DEF WellFormed
  <2>2. CASE c[1] = b.steps
    <3>1. c \in Call /\ c = <<b.steps, c[2]>> /\ c[2] \in 1 .. MaxCalls
          /\ c[2] <= Len(b.batch[b.steps])
      BY <1>3, <1>11, <2>2 DEF AllCalls, Call
    <3>2. Len(b.batch[b.steps]) \in 0 .. MaxCalls
      BY <1>1, <1>2, BatchLength
    <3>3. c[2] \in 1 .. Len(b.batch[b.steps])
      BY <3>1, <3>2, LimitsAssumption
    <3> QED BY <1>9, <1>10, <1>11, <3>1, <3>3
  <2> QED BY <2>1, <2>2
<1>12. WellFormed(t)
  BY <1>1, <1>3, <1>6, <1>8, <1>9, <1>11 DEF WellFormed
<1>13. Truthful(t)
  BY <1>1, <1>4, <1>5 DEF Truthful
<1> QED BY <1>3, <1>12, <1>13 DEF Extends

\* While a batch is taken, and while it is reconciled, the transcript in memory
\* may be saved as pending.
LEMMA Live ==
    ASSUME LoopInv, pc \in Busy \cup {"reconcile"}
    PROVE  /\ Extends([mem EXCEPT !.pending = TRUE])
           /\ mem \in Transcript /\ saved.outcome = "open" /\ mem.outcome = "open"
<1> DEFINE t == [mem EXCEPT !.pending = TRUE]
<1>1. mem \in Transcript /\ saved \in Transcript /\ WellFormed(saved) /\ Truthful(saved)
  BY DEF LoopInv, TypeInv
<1>2. saved.outcome = "open" /\ mem.outcome = "open"
  BY DEF LoopInv, Control, Busy, Acting
<1>3. /\ t \in Transcript /\ t.answers = mem.answers /\ t.batch = mem.batch
      /\ t.steps = mem.steps /\ t.outcome = mem.outcome /\ t.pending
  BY <1>1 DEF Transcript
<1>4. AllCalls(t) = AllCalls(mem) /\ Completed(t) = Completed(mem)
  BY <1>3 DEF AllCalls, Completed
<1> HIDE DEF t
<1>5. CASE mem = saved /\ saved.pending
  <2>1. WellFormed(t)
    BY <1>1, <1>2, <1>3, <1>4, <1>5 DEF WellFormed
  <2>2. Truthful(t)
    BY <1>1, <1>3, <1>5 DEF Truthful
  <2> QED BY <1>1, <1>2, <1>3, <1>4, <1>5, <2>1, <2>2 DEF Extends, t
<1>6. CASE pc = "call" /\ ~(mem = saved /\ saved.pending)
  <2>1. /\ ~saved.pending /\ mem.answers = saved.answers
        /\ mem.steps = saved.steps + 1
        /\ \A s \in 1 .. MaxSteps :
              IF s = mem.steps THEN mem.batch[s] # <<>> ELSE mem.batch[s] = saved.batch[s]
    BY <1>6 DEF LoopInv, Control
  <2>2. mem.steps \in 1 .. MaxSteps /\ saved.steps \in 0 .. MaxSteps
    BY <1>1, <1>6 DEF LoopInv, Control, InBatch, Busy, Transcript
  <2>3. saved.batch[mem.steps] = <<>>
    BY <1>1, <2>1, <2>2, LimitsAssumption DEF WellFormed
  <2>4. ASSUME NEW c \in Call PROVE c \in AllCalls(saved) <=> c \in AllCalls(mem) /\ c[1] # mem.steps
    <3>1. c[1] \in 1 .. MaxSteps /\ c[2] \in 1 .. MaxCalls
      BY DEF Call
    <3>2. CASE c[1] = mem.steps
      <4>1. Len(saved.batch[c[1]]) = 0
        BY <2>3, <3>2
      <4> QED BY <3>1, <3>2, <4>1, LimitsAssumption DEF AllCalls
    <3>3. CASE c[1] # mem.steps
      BY <2>1, <3>1, <3>3 DEF AllCalls
    <3> QED BY <3>2, <3>3
  <2>5. AllCalls(saved) \subseteq AllCalls(mem)
    BY <2>4 DEF AllCalls
  <2>6. Completed(saved) = Completed(mem)
    BY <2>1 DEF Completed
  <2>7. AllCalls(saved) \subseteq Completed(saved)
    BY <1>1, <2>1 DEF WellFormed
  <2>8. \A c \in AllCalls(mem) : c[1] # mem.steps => c \in Completed(mem)
    BY <2>4, <2>6, <2>7 DEF AllCalls
  <2>9. \A s \in 1 .. MaxSteps : s > mem.steps => mem.batch[s] = <<>>
    BY <1>1, <2>1, <2>2, LimitsAssumption DEF WellFormed
  <2>10. WellFormed(t)
    BY <1>1, <1>2, <1>3, <1>4, <2>1, <2>2, <2>5, <2>8, <2>9 DEF WellFormed
  <2>11. Truthful(t)
    BY <1>1, <1>3, <2>1 DEF Truthful
  <2>12. Extends(t)
    BY <1>2, <1>3, <1>4, <2>1, <2>5, <2>7, <2>10, <2>11 DEF Extends
  <2> QED BY <1>1, <1>2, <2>12 DEF t
<1> QED BY <1>5, <1>6 DEF LoopInv, Control, Busy, Acting

LEMMA SkipKeeps == LoopInv /\ Skip => Kept
<1> SUFFICES ASSUME LoopInv, Skip PROVE Kept
  OBVIOUS
<1> DEFINE b == [mem EXCEPT !.pending = TRUE]
           n == Len(mem.batch[mem.steps])
           K == pos .. n
           t == [mem EXCEPT
                   !.answers = @ \cup {<<<<mem.steps, k>>, "skipped">> : k \in pos .. n},
                   !.pending = FALSE, !.outcome = "exhausted"]
<1>1. pc = "call" /\ InBatch /\ UNCHANGED <<journal, tree, runs, pos, drifts>>
  BY DEF Skip, LoopInv, Control, Busy
<1>2. Extends(b) /\ mem \in Transcript
  BY <1>1, Live DEF Busy
<1>3. mem.steps \in 1 .. MaxSteps /\ pos \in 1 .. n /\ n \in 1 .. MaxCalls
  <2>1. n \in 0 .. MaxCalls
    BY <1>1, <1>2, BatchLength DEF InBatch
  <2> QED BY <1>1, <2>1, LimitsAssumption DEF InBatch
<1>4. /\ b.pending /\ b.batch = mem.batch /\ b.steps = mem.steps /\ b.answers = mem.answers
  BY <1>2 DEF Transcript
<1>5. Completed(b) = Completed(mem)
  BY <1>4 DEF Completed
<1>6. {<<<<mem.steps, k>>, "skipped">> : k \in K} \subseteq Call \X Says
  <2>1. \A k \in K : k \in 1 .. MaxCalls
    BY <1>3, LimitsAssumption
  <2> QED BY <1>3, <2>1 DEF Call, Says
<1>7. /\ t \in Transcript /\ t.batch = mem.batch /\ t.steps = mem.steps /\ ~t.pending
      /\ t.answers = mem.answers \cup {<<<<mem.steps, k>>, "skipped">> : k \in K}
  BY <1>2, <1>6 DEF Transcript
<1> DEFINE says == [k \in K |-> "skipped"]
<1>8. says \in [K -> Says] /\ \A k \in K : says[k] = "skipped"
  BY DEF Says
<1>9. {<<<<mem.steps, k>>, "skipped">> : k \in K} = {<<<<mem.steps, k>>, says[k]>> : k \in K}
  BY <1>8
<1>10. \A k \in K : /\ <<mem.steps, k>> \notin Completed(mem)
                     /\ journal[<<mem.steps, k>>].state = "none"
  BY <1>1, <1>3, LimitsAssumption DEF InBatch, Current
<1>11. \A k \in 1 .. n : k \in K \/ <<mem.steps, k>> \in Completed(mem)
  BY <1>1, <1>3, LimitsAssumption DEF InBatch
<1>12. K \subseteq 1 .. n
  BY <1>3, LimitsAssumption
<1>13. Save(t, "idle")
  BY <1>2 DEF Skip, Finish, Transcript
<1> HIDE DEF b, t, says, K
<1>14. t.batch = b.batch /\ t.steps = b.steps /\ K \subseteq 1 .. Len(b.batch[b.steps])
  BY <1>4, <1>7, <1>12
<1>15. t.answers = b.answers \cup {<<<<b.steps, k>>, says[k]>> : k \in K}
  BY <1>4, <1>7, <1>9
<1>16. \A k \in K :
          /\ <<b.steps, k>> \notin Completed(b)
          /\ journal[<<b.steps, k>>].state = IF says[k] = "skipped" THEN "none" ELSE says[k]
  BY <1>4, <1>5, <1>8, <1>10
<1>17. \A k \in 1 .. Len(b.batch[b.steps]) : k \in K \/ <<b.steps, k>> \in Completed(b)
  BY <1>4, <1>5, <1>11
<1>18. Answers(b, t, K, says)
  BY <1>2, <1>4, <1>7, <1>8, <1>14, <1>15, <1>16, <1>17 DEF Answers
<1>19. Extends(t)
  BY <1>18, Answering
<1> QED BY <1>1, <1>13, <1>19, AfterSave

\* The call being taken is one of the batch.
LEMMA CurrentCall ==
    ASSUME LoopInv, pc \in Busy
    PROVE  /\ mem \in Transcript /\ mem.steps \in 1 .. MaxSteps
           /\ Len(mem.batch[mem.steps]) \in 1 .. MaxCalls
           /\ pos \in 1 .. Len(mem.batch[mem.steps])
           /\ Current = <<mem.steps, pos>> /\ Current \in AllCalls(mem)
           /\ Current \notin Completed(mem)
           /\ \A k \in 1 .. Len(mem.batch[mem.steps]) : <<mem.steps, k>> \in Call
<1>1. InBatch /\ mem \in Transcript
  BY DEF LoopInv, Control, TypeInv
<1>2. mem.steps \in 1 .. MaxSteps /\ pos \in 1 .. Len(mem.batch[mem.steps])
  BY <1>1 DEF InBatch
<1>3. Len(mem.batch[mem.steps]) \in 1 .. MaxCalls
  <2>1. Len(mem.batch[mem.steps]) \in 0 .. MaxCalls
    BY <1>1, <1>2, BatchLength
  <2> QED BY <1>2, <2>1, LimitsAssumption
<1>4. \A k \in 1 .. Len(mem.batch[mem.steps]) : k \in 1 .. MaxCalls
  BY <1>3, LimitsAssumption
<1>5. \A k \in 1 .. Len(mem.batch[mem.steps]) : <<mem.steps, k>> \in Call
  BY <1>2, <1>4 DEF Call
<1>6. Current = <<mem.steps, pos>> /\ Current \in Call /\ Current[1] = mem.steps /\ Current[2] = pos
  BY <1>2, <1>5 DEF Current
<1>7. Current \in AllCalls(mem)
  BY <1>2, <1>3, <1>6, LimitsAssumption DEF AllCalls
<1>8. Current \notin Completed(mem)
  BY <1>1, <1>2, <1>3, <1>6, LimitsAssumption DEF InBatch
<1> QED BY <1>1, <1>2, <1>3, <1>5, <1>6, <1>7, <1>8

LEMMA IntendKeeps == LoopInv /\ Intend => Kept
<1> SUFFICES ASSUME LoopInv, Intend PROVE Kept
  OBVIOUS
<1> DEFINE t == [mem EXCEPT !.pending = TRUE]
<1>1. pc = "call" /\ InBatch /\ UNCHANGED <<journal, tree, runs, pos, drifts>>
      /\ Save(t, "exec")
  BY DEF Intend, LoopInv, Control, Busy
<1>2. Extends(t) /\ mem \in Transcript /\ mem.outcome = "open"
  BY <1>1, Live DEF Busy
<1>3. t.batch = mem.batch /\ t.steps = mem.steps /\ t.answers = mem.answers
      /\ t.outcome = mem.outcome /\ t.pending
  BY <1>2 DEF Transcript
<1> HIDE DEF t
<1>4. /\ saved' \in Transcript /\ mem' \in Transcript
      /\ WellFormed(saved') /\ Truthful(saved)' /\ Journalled'
      /\ faults' \in 0 .. MaxFaults /\ pc' \in Place
      /\ [Session!Next]_(Session!vars)
      /\ \/ pc' = "exec" /\ mem' = saved' /\ saved' = [t EXCEPT !.cand = tree]
         \/ pc' = "stopping" /\ Extends(mem)'
  BY <1>1, <1>2, Saving DEF Place
<1>5. TypeInv'
  BY <1>1, <1>4 DEF LoopInv, TypeInv
<1>6. Control'
  <2>1. CASE pc' = "exec" /\ mem' = saved' /\ saved' = [t EXCEPT !.cand = tree]
    <3>1. /\ mem'.batch = mem.batch /\ mem'.steps = mem.steps /\ mem'.answers = mem.answers
          /\ saved'.outcome = "open" /\ saved'.pending
      BY <1>2, <1>3, <2>1 DEF Extends, Transcript
    <3>2. Completed(mem') = Completed(mem) /\ Current' = Current
      BY <1>1, <3>1 DEF Completed, Current
    <3>3. InBatch'
      BY <1>1, <2>1, <3>1, <3>2 DEF InBatch
    <3> QED BY <2>1, <3>1, <3>3 DEF Control, Waiting, Acting, Busy
  <2>2. CASE pc' = "stopping" /\ Extends(mem)'
    BY <2>2 DEF Control, Waiting, Acting, Busy
  <2> QED BY <1>4, <2>1, <2>2
<1> QED BY <1>4, <1>5, <1>6 DEF Kept, LoopInv

LEMMA ChatKeeps == LoopInv /\ Chat => Kept
<1> SUFFICES ASSUME LoopInv, Chat PROVE Kept
  OBVIOUS
<1>1. mem = saved /\ saved.outcome = "open" /\ ~saved.pending /\ mem \in Transcript
      /\ WellFormed(saved) /\ Journalled /\ pc' = "call" /\ pos' = 1
      /\ UNCHANGED <<saved, journal, tree, runs, faults, drifts>> /\ mem.steps < MaxSteps
  BY DEF LoopInv, TypeInv, Control, Chat, Waiting
<1>2. PICK b \in Batches : /\ Len(b) > 1 => \A k \in 1 .. Len(b) : b[k] # "done"
                           /\ mem' = [Asked EXCEPT !.batch[mem.steps + 1] = b]
  BY DEF Chat
<1>2a. Len(b) > 1 => \A k \in 1 .. Len(b) : b[k] # "done"
  BY <1>2
<1>2b. mem' = [Asked EXCEPT !.batch[mem.steps + 1] = b]
  BY <1>2
<1> DEFINE s == mem.steps + 1
<1>3. mem.steps \in 0 .. MaxSteps /\ s \in 1 .. MaxSteps
  BY <1>1, LimitsAssumption DEF Transcript
<1>4. /\ mem' \in Transcript /\ mem'.steps = s /\ mem'.answers = saved.answers
      /\ mem'.outcome = "open"
  <2>1. /\ Asked \in Transcript /\ Asked.steps = s /\ Asked.answers = saved.answers
        /\ Asked.outcome = "open"
    <3>1. s \in 0 .. MaxSteps
      BY <1>3, LimitsAssumption
    <3> QED BY <1>1, <3>1 DEF Transcript, Asked
  <2> HIDE DEF s
  <2>2. mem' = [Asked EXCEPT !.batch[s] = b]
    BY <1>2b DEF s
  <2>3. [Asked.batch EXCEPT ![s] = b] \in [1 .. MaxSteps -> Batches \cup {<<>>}]
    BY <2>1 DEF Transcript
  <2> QED BY <2>1, <2>2, <2>3 DEF Transcript
<1>5. mem'.batch = [saved.batch EXCEPT ![s] = b]
  BY <1>1, <1>2b, <1>3 DEF Transcript, Asked
<1>6. saved.batch \in [1 .. MaxSteps -> Batches \cup {<<>>}]
  BY <1>1 DEF Transcript
<1>7. mem'.batch[s] = b /\ \A r \in 1 .. MaxSteps : r # s => mem'.batch[r] = saved.batch[r]
  BY <1>3, <1>5, <1>6
<1>8. Len(b) \in 1 .. MaxCalls /\ b # <<>>
  BY BatchesAssumption
<1>9. saved.batch[s] = <<>>
  BY <1>1, <1>3, LimitsAssumption DEF WellFormed
<1>10. ASSUME NEW k \in 1 .. Len(b)
       PROVE  <<s, k>> \in Call /\ <<s, k>> \notin AllCalls(saved)
  <2>1. k \in 1 .. MaxCalls
    BY <1>8, LimitsAssumption
  <2>2. <<s, k>> \in Call
    BY <1>3, <2>1 DEF Call
  <2>3. Len(saved.batch[s]) = 0
    BY <1>9
  <2> QED BY <2>1, <2>2, <2>3 DEF AllCalls
<1>11. \A c \in Completed(saved) : c \in AllCalls(saved)
  BY <1>1 DEF WellFormed, Completed
<1>12. Completed(mem') = Completed(saved)
  BY <1>4 DEF Completed
<1>13. \A k \in 1 .. Len(b) : /\ <<s, k>> \notin Completed(mem')
                              /\ journal[<<s, k>>].state = "none"
  BY <1>1, <1>10, <1>11, <1>12 DEF Journalled
<1>14. Current' = <<s, 1>>
  BY <1>1, <1>4 DEF Current
<1> HIDE DEF s
<1>15. InBatch'
  <2>1. \A k \in 1 .. Len(b) : b[k] = "done" => Len(b) = 1
    <3>0. \A x \in 1 .. MaxCalls : x = 1 \/ x > 1
      BY LimitsAssumption
    <3>1. Len(b) = 1 \/ Len(b) > 1
      BY <1>8, <3>0
    <3> QED BY <1>2a, <3>1
  <2> QED BY <1>1, <1>3, <1>4, <1>7, <1>8, <1>13, <1>14, <2>1, LimitsAssumption DEF InBatch
<1>16. Control'
  BY <1>1, <1>3, <1>4, <1>7, <1>8, <1>15 DEF Control, Waiting, Acting, Busy, s
<1>17. TypeInv'
  <2>1. MaxCalls \in Nat /\ 1 \in 1 .. MaxCalls
    BY <1>8, LimitsAssumption
  <2> QED BY <1>1, <1>4, <2>1 DEF LoopInv, TypeInv, Place
<1>18. WellFormed(saved') /\ Truthful(saved)' /\ Journalled' /\ UNCHANGED Session!vars
  BY <1>1 DEF LoopInv, Truthful, Journalled, Session!vars
<1> QED BY <1>16, <1>17, <1>18 DEF Kept, LoopInv

\* Step may always return without having changed the transcript.
LEMMA SavedExtends ==
    ASSUME LoopInv, saved.outcome = "open" PROVE Extends(saved)
BY DEF LoopInv, TypeInv, Extends

\* Writing the journal entry of the current call leaves the rest alone.
LEMMA Writing ==
    ASSUME LoopInv, pc \in Acting, NEW x \in Operation,
           journal' = [journal EXCEPT ![Current] = x], UNCHANGED <<saved, mem, pos>>
    PROVE  /\ journal' \in [Call -> Operation]
           /\ journal'[Current] = x
           /\ \A c \in Call : c # Current => journal'[c] = journal[c]
           /\ Truthful(saved)'
           /\ \A k \in 1 .. Len(mem.batch[mem.steps]) :
                 k > pos => journal'[<<mem.steps, k>>].state = "none"
           /\ mem = saved /\ saved.pending /\ saved.outcome = "open"
           /\ Current \in Call /\ Current \in AllCalls(saved) /\ Current' = Current
<1>1. mem = saved /\ saved.pending /\ saved.outcome = "open" /\ InBatch
  BY DEF LoopInv, Control, Acting, Busy
<1>2. /\ mem \in Transcript /\ Current \in AllCalls(mem) /\ Current \notin Completed(mem)
      /\ Current = <<mem.steps, pos>>
      /\ \A k \in 1 .. Len(mem.batch[mem.steps]) : <<mem.steps, k>> \in Call
      /\ pos \in 1 .. Len(mem.batch[mem.steps]) /\ Len(mem.batch[mem.steps]) \in 1 .. MaxCalls
  BY CurrentCall DEF Busy
<1>3. Current \in Call
  BY <1>2 DEF AllCalls
<1>4. /\ journal' \in [Call -> Operation] /\ journal'[Current] = x
      /\ \A c \in Call : c # Current => journal'[c] = journal[c]
  BY <1>3 DEF LoopInv, TypeInv
<1>5. \A a \in saved.answers : a[1] \in Call /\ a[1] # Current
  BY <1>1, <1>2 DEF Transcript, Completed
<1>6. Truthful(saved)'
  BY <1>4, <1>5 DEF LoopInv, Truthful
<1>7. ASSUME NEW k \in 1 .. Len(mem.batch[mem.steps]), k > pos
      PROVE  journal'[<<mem.steps, k>>].state = "none"
  <2>1. k # pos
    BY <1>2, <1>7, LimitsAssumption
  <2>2. <<mem.steps, k>> # Current
    BY <1>2, <2>1
  <2>3. journal[<<mem.steps, k>>].state = "none"
    BY <1>1, <1>7 DEF InBatch
  <2> QED BY <1>2, <1>4, <2>2, <2>3
<1>8. Current' = Current
  BY DEF Current
<1> QED BY <1>1, <1>2, <1>3, <1>4, <1>6, <1>7, <1>8

LEMMA BeginKeeps == LoopInv /\ Begin => Kept
<1> SUFFICES ASSUME LoopInv, Begin PROVE Kept
  OBVIOUS
<1>1. pc = "exec" /\ UNCHANGED <<tree, runs, pos, drifts>>
  BY DEF Begin
<1>2. CASE Fault /\ Return(mem) /\ UNCHANGED journal
  <2>1. mem = saved /\ saved.outcome = "open"
    BY <1>1 DEF LoopInv, Control, Acting
  <2>2. faults' \in 0 .. MaxFaults
    BY <1>2, FaultCounted DEF LoopInv
  <2> QED BY <1>1, <1>2, <2>1, <2>2, SavedExtends, AfterReturn
<1>3. CASE /\ journal' = [journal EXCEPT ![Current] =
                            [state |-> "begun", before |-> tree, after |-> None]]
           /\ pc' = "begun"
           /\ UNCHANGED <<saved, mem, faults>>
  <2> DEFINE x == [state |-> "begun", before |-> tree, after |-> None]
  <2>1. x \in Operation /\ x.state = "begun"
    BY DEF LoopInv, TypeInv, Operation
  <2> HIDE DEF x
  <2>2. journal' = [journal EXCEPT ![Current] = x]
    BY <1>3 DEF x
  <2>3. /\ journal' \in [Call -> Operation]
        /\ journal'[Current] = x
        /\ \A c \in Call : c # Current => journal'[c] = journal[c]
        /\ Truthful(saved)'
        /\ \A k \in 1 .. Len(mem.batch[mem.steps]) :
              k > pos => journal'[<<mem.steps, k>>].state = "none"
        /\ mem = saved /\ saved.pending /\ saved.outcome = "open"
        /\ Current \in Call /\ Current \in AllCalls(saved) /\ Current' = Current
    BY <1>1, <1>3, <2>1, <2>2, Writing DEF Acting
  <2>4. InBatch /\ journal[Current].state = "none" /\ runs[Current] = 0
    BY <1>1, <2>3 DEF LoopInv, Control, InBatch, Busy, Acting, Journalled
  <2>5. Journalled'
    BY <1>1, <1>3, <2>1, <2>3, <2>4 DEF LoopInv, Journalled
  <2>6. InBatch'
    BY <1>1, <1>3, <2>1, <2>3, <2>4 DEF InBatch
  <2>7. Control'
    BY <1>1, <1>3, <2>3, <2>6 DEF Control, Waiting, Acting, Busy
  <2>8. TypeInv'
    BY <1>1, <1>3, <2>3 DEF LoopInv, TypeInv, Place
  <2>9. UNCHANGED Session!vars
    BY <1>1, <1>3 DEF Session!vars
  <2>10. WellFormed(saved')
    BY <1>3 DEF LoopInv
  <2> QED BY <2>3, <2>5, <2>7, <2>8, <2>9, <2>10 DEF Kept, LoopInv
<1> QED BY <1>2, <1>3 DEF Begin

LEMMA ExecuteKeeps == LoopInv /\ Execute => Kept
<1> SUFFICES ASSUME LoopInv, Execute PROVE Kept
  OBVIOUS
<1>1. pc = "begun" /\ pc' = "ran" /\ UNCHANGED <<saved, journal, mem, pos, faults, drifts>>
  BY DEF Execute
<1>2. /\ mem = saved /\ saved.pending /\ saved.outcome = "open" /\ InBatch
      /\ journal[Current].state = "begun" /\ runs[Current] = 0
  BY <1>1 DEF LoopInv, Control, Acting, Busy, InBatch
<1>3. Current \in AllCalls(saved) /\ Current \notin Completed(saved) /\ Current \in Call
      /\ Current' = Current
  BY <1>1, <1>2, CurrentCall DEF Busy, Acting, AllCalls, Current
<1> DEFINE kind == KindOf(mem, Current)
<1>4. tree' \in Trees
  BY DEF Execute, LoopInv, TypeInv
<1>5. /\ runs' \in [Call -> Nat] /\ \A c \in Call : c # Current => runs'[c] = runs[c]
      /\ runs'[Current] = IF kind = "denied" THEN 0 ELSE 1
      /\ runs' = runs \/ runs' = [runs EXCEPT ![Current] = 1]
  <2>1. runs \in [Call -> Nat]
    BY DEF LoopInv, TypeInv
  <2>2. CASE kind = "denied" /\ runs' = runs
    BY <1>2, <2>1, <2>2
  <2>3. CASE kind # "denied" /\ runs' = [runs EXCEPT ![Current] = @ + 1]
    <3>1. runs' = [runs EXCEPT ![Current] = 1]
      BY <1>2, <2>3
    <3>2. /\ runs' \in [Call -> Nat] /\ \A c \in Call : c # Current => runs'[c] = runs[c]
          /\ runs'[Current] = 1
      BY <1>3, <2>1, <3>1
    <3> HIDE DEF kind
    <3> QED BY <2>3, <3>1, <3>2
  <2> QED BY <2>2, <2>3 DEF Execute
<1>6. KindOf(mem, Current)' = kind
  BY <1>1, <1>3 DEF KindOf
<1> HIDE DEF kind
<1>7. Journalled'
  BY <1>1, <1>2, <1>5 DEF LoopInv, Journalled
<1>8. InBatch'
  BY <1>1, <1>2, <1>3, <1>5, <1>6 DEF InBatch
<1>9. Control'
  BY <1>1, <1>2, <1>8 DEF Control, Waiting, Acting, Busy
<1>10. TypeInv'
  BY <1>1, <1>4, <1>5 DEF LoopInv, TypeInv, Place
<1>11. WellFormed(saved') /\ Truthful(saved)'
  BY <1>1 DEF LoopInv, Truthful
<1>12. [Session!Next]_(Session!vars)
  <2>1. CASE runs' = runs
    BY <1>1, <2>1 DEF Session!vars
  <2>2. CASE runs' = [runs EXCEPT ![Current] = 1]
    <3>1. ~\E says \in Says : <<Current, says>> \in saved.answers
      BY <1>3, AnswerPairs DEF LoopInv, TypeInv
    <3>2. Session!Execute(Current)
      BY <1>1, <1>2, <1>3, <2>2, <3>1
      DEF Session!Execute, Session!Answered, Session!Says, Says
    <3> QED BY <1>3, <3>2 DEF Session!Next
  <2> QED BY <1>5, <2>1, <2>2
<1> QED BY <1>7, <1>9, <1>10, <1>11, <1>12 DEF Kept, LoopInv

LEMMA CompleteKeeps == LoopInv /\ Complete => Kept
<1> SUFFICES ASSUME LoopInv, Complete PROVE Kept
  OBVIOUS
<1>1. pc = "ran" /\ UNCHANGED <<tree, runs, pos, drifts>>
  BY DEF Complete
<1>2. CASE Fault /\ Return(mem) /\ UNCHANGED journal
  <2>1. mem = saved /\ saved.outcome = "open"
    BY <1>1 DEF LoopInv, Control, Acting
  <2>2. faults' \in 0 .. MaxFaults
    BY <1>2, FaultCounted DEF LoopInv
  <2> QED BY <1>1, <1>2, <2>1, <2>2, SavedExtends, AfterReturn
<1> DEFINE kind == KindOf(mem, Current)
           verdict == IF kind = "denied" THEN "denied" ELSE "result"
<1>3. CASE /\ journal' = [journal EXCEPT ![Current].state = verdict,
                                         ![Current].after = tree]
           /\ pc' = "completed"
           /\ UNCHANGED <<saved, mem, faults>>
  <2> DEFINE x == [journal[Current] EXCEPT !.state = verdict, !.after = tree]
  <2>0. Current \in Call
    BY <1>1, CurrentCall DEF Busy, Acting, AllCalls
  <2>1. x \in Operation /\ x.state = verdict
    <3>1. journal[Current] \in Operation /\ tree \in Trees
      BY <2>0 DEF LoopInv, TypeInv
    <3> QED BY <3>1 DEF Operation
  <2>2. journal' = [journal EXCEPT ![Current] = x]
    BY <1>3, <2>0 DEF LoopInv, TypeInv
  <2> HIDE DEF x, kind
  <2>3. /\ journal' \in [Call -> Operation]
        /\ journal'[Current] = x
        /\ \A c \in Call : c # Current => journal'[c] = journal[c]
        /\ Truthful(saved)'
        /\ \A k \in 1 .. Len(mem.batch[mem.steps]) :
              k > pos => journal'[<<mem.steps, k>>].state = "none"
        /\ mem = saved /\ saved.pending /\ saved.outcome = "open"
        /\ Current \in Call /\ Current \in AllCalls(saved) /\ Current' = Current
    BY <1>1, <1>3, <2>1, <2>2, Writing DEF Acting
  <2>4. InBatch /\ runs[Current] = IF kind = "denied" THEN 0 ELSE 1
    BY <1>1, <2>3 DEF LoopInv, Control, InBatch, Busy, Acting, kind
  <2>5. Journalled'
    BY <1>1, <1>3, <2>1, <2>3, <2>4 DEF LoopInv, Journalled
  <2>6. InBatch'
    <3>1. journal'[Current'].state \in {"result", "denied"}
      BY <2>1, <2>3
    <3>2. pc' = "completed" /\ mem' = mem /\ pos' = pos
      BY <1>1, <1>3
    <3> HIDE DEF verdict
    <3> QED BY <2>3, <2>4, <3>1, <3>2 DEF InBatch
  <2>7. Control'
    BY <1>1, <1>3, <2>3, <2>6 DEF Control, Waiting, Acting, Busy
  <2>8. TypeInv'
    BY <1>1, <1>3, <2>3 DEF LoopInv, TypeInv, Place
  <2>9. UNCHANGED Session!vars
    BY <1>1, <1>3 DEF Session!vars
  <2>10. WellFormed(saved')
    BY <1>3 DEF LoopInv
  <2> QED BY <2>3, <2>5, <2>7, <2>8, <2>9, <2>10 DEF Kept, LoopInv
<1> QED BY <1>2, <1>3 DEF Complete

LEMMA RecordKeeps == LoopInv /\ Record => Kept
<1> SUFFICES ASSUME LoopInv, Record PROVE Kept
  OBVIOUS
<1> DEFINE kind == KindOf(mem, Current)
           n    == Len(mem.batch[mem.steps])
           last == pos = n
           told == journal[Current].state
           t == [mem EXCEPT
                   !.answers = @ \cup {<<Current, told>>},
                   !.pending = ~last,
                   !.tools   = @ + 1,
                   !.verify  = IF kind = "recipe" THEN @ + 1 ELSE @,
                   !.invalid = IF kind = "denied" THEN @ + 1 ELSE @]
<1>1. pc = "completed" /\ UNCHANGED <<journal, tree, runs, drifts>>
  BY DEF Record
<1>2. /\ mem = saved /\ saved.pending /\ saved.outcome = "open" /\ InBatch
      /\ told \in {"result", "denied"}
  BY <1>1 DEF LoopInv, Control, Acting, Busy, InBatch
<1>3. /\ mem \in Transcript /\ mem.steps \in 1 .. MaxSteps /\ n \in 1 .. MaxCalls
      /\ pos \in 1 .. n /\ Current = <<mem.steps, pos>> /\ Current \in AllCalls(mem)
      /\ Current \notin Completed(mem)
      /\ \A k \in 1 .. n : <<mem.steps, k>> \in Call
  BY <1>1, CurrentCall DEF Busy, Acting
<1>4. <<Current, told>> \in Call \X Says
  BY <1>2, <1>3 DEF Says
<1>5. /\ t \in Transcript /\ t.batch = mem.batch /\ t.steps = mem.steps
      /\ t.answers = mem.answers \cup {<<Current, told>>} /\ t.outcome = "open"
      /\ t.pending <=> ~last
  <2>1. mem.tools + 1 \in Nat /\ mem.verify + 1 \in Nat /\ mem.invalid + 1 \in Nat
    BY <1>3 DEF Transcript
  <2> HIDE DEF kind, last, told
  <2> QED BY <1>2, <1>3, <1>4, <2>1 DEF Transcript
<1>6. ASSUME NEW STATE u, u \in Transcript, u.batch = mem.batch, u.steps = mem.steps,
             u.answers = mem.answers \cup {<<Current, told>>}, u.pending <=> ~last,
             ~last => u.outcome = "open"
      PROVE  Extends(u)
  <2> DEFINE K == {pos}
             says == [k \in K |-> told]
  <2>1. says \in [K -> Says] /\ \A k \in K : says[k] = told /\ k = pos
    BY <1>2 DEF Says
  <2>2. {<<Current, told>>} = {<<<<mem.steps, k>>, says[k]>> : k \in K}
    BY <1>3, <2>1
  <2> HIDE DEF told, says
  <2>3. u.answers = saved.answers \cup {<<<<saved.steps, k>>, says[k]>> : k \in K}
    BY <1>2, <1>6, <2>2
  <2>4. \A k \in K :
          /\ <<saved.steps, k>> \notin Completed(saved)
          /\ journal[<<saved.steps, k>>].state = IF says[k] = "skipped" THEN "none" ELSE says[k]
    BY <1>2, <1>3, <2>1 DEF told
  <2>5. ASSUME ~u.pending, NEW k \in 1 .. Len(saved.batch[saved.steps])
        PROVE  k \in K \/ <<saved.steps, k>> \in Completed(saved)
    <3>1. k = pos \/ k < pos
      BY <1>2, <1>3, <1>6, <2>5, LimitsAssumption
    <3> QED BY <1>2, <2>5, <3>1 DEF InBatch
  <2>6. K \subseteq 1 .. Len(saved.batch[saved.steps])
    BY <1>2, <1>3
  <2>7. Extends(saved) /\ u.batch = saved.batch /\ u.steps = saved.steps
    BY <1>2, <1>6, SavedExtends
  <2> HIDE DEF K, last
  <2>8. Answers(saved, u, K, says)
    BY <1>2, <1>6, <2>1, <2>3, <2>4, <2>5, <2>6, <2>7 DEF Answers
  <2> QED BY <2>8, Answering
<1>7. CASE kind = "done" /\ Finish(t, "done") /\ UNCHANGED pos
  <2> DEFINE u == [t EXCEPT !.outcome = "done"]
  <2>1. last
    <3>1. Current[1] = mem.steps /\ Current[2] = pos
      BY <1>3
    <3>2. mem.batch[mem.steps][pos] = "done"
      BY <1>7, <3>1 DEF KindOf
    <3>3. n = 1
      BY <1>2, <1>3, <3>2 DEF InBatch
    <3> QED BY <1>3, <3>3
  <2>2. /\ u \in Transcript /\ u.batch = mem.batch /\ u.steps = mem.steps
        /\ u.answers = mem.answers \cup {<<Current, told>>} /\ ~u.pending
    <3> HIDE DEF t, told
    <3> QED BY <1>5, <2>1 DEF Transcript
  <2>3. Save(u, "idle")
    BY <1>7 DEF Finish
  <2> HIDE DEF u
  <2>4. Extends(u)
    BY <1>6, <2>1, <2>2
  <2> QED BY <1>1, <1>7, <2>3, <2>4, AfterSave
<1> HIDE DEF t, kind, told
<1>8. Extends(t)
  BY <1>5, <1>6
<1>9. CASE last /\ (\E next \in {"loop", "stuck"} : Save(t, next)) /\ UNCHANGED pos
  <2>1. PICK next \in {"loop", "stuck"} : Save(t, next)
    BY <1>9
  <2> QED BY <1>1, <1>5, <1>8, <1>9, <2>1, AfterSave DEF Waiting
<1>10. CASE ~last /\ Save(t, "call") /\ pos' = pos + 1
  <2>1. /\ saved' \in Transcript /\ mem' \in Transcript
        /\ WellFormed(saved') /\ Truthful(saved)' /\ Journalled'
        /\ faults' \in 0 .. MaxFaults /\ pc' \in Place
        /\ [Session!Next]_(Session!vars)
        /\ \/ pc' = "call" /\ mem' = saved' /\ saved' = [t EXCEPT !.cand = tree]
           \/ pc' = "stopping" /\ Extends(mem)'
    BY <1>1, <1>8, <1>10, Saving DEF Place
  <2>2. pos + 1 \in 1 .. n /\ pos + 1 \in 1 .. MaxCalls
    BY <1>3, <1>10, LimitsAssumption
  <2>3. TypeInv'
    BY <1>1, <1>10, <2>1, <2>2 DEF LoopInv, TypeInv
  <2>4. CASE pc' = "call" /\ mem' = saved' /\ saved' = [t EXCEPT !.cand = tree]
    <3>1. /\ mem'.batch = mem.batch /\ mem'.steps = mem.steps
          /\ mem'.answers = mem.answers \cup {<<Current, told>>}
          /\ saved'.outcome = "open" /\ saved'.pending
      <4> HIDE DEF last
      <4> QED BY <1>5, <1>10, <2>4 DEF Transcript
    <3>2. Current' = <<mem.steps, pos + 1>>
      BY <1>10, <3>1 DEF Current
    <3>3. Completed(mem') = Completed(mem) \cup {Current}
      <4>1. <<Current, told>>[1] = Current
        OBVIOUS
      <4> QED BY <3>1, <4>1 DEF Completed
    <3>4. ASSUME NEW k \in 1 .. n
          PROVE  /\ <<mem.steps, k>> \in Completed(mem') <=> k < pos + 1
                 /\ k > pos => journal[<<mem.steps, k>>].state = "none"
                 /\ mem.batch[mem.steps][k] = "done" => n = 1
      <4>1. <<mem.steps, k>> = Current <=> k = pos
        BY <1>3
      <4>2. <<mem.steps, k>> \in Completed(mem) <=> k < pos
        BY <1>2 DEF InBatch
      <4>3. k < pos + 1 <=> k < pos \/ k = pos
        BY <1>3, LimitsAssumption
      <4> QED BY <1>2, <3>3, <4>1, <4>2, <4>3 DEF InBatch
    <3>5. pos + 1 > pos
      BY <1>3, LimitsAssumption
    <3>6. \A k \in 1 .. n : k > pos + 1 => k > pos
      BY <1>3, LimitsAssumption
    <3>7. journal'[Current'].state = "none"
      BY <1>1, <2>2, <3>2, <3>4, <3>5
    <3>8. InBatch'
      BY <1>1, <1>3, <1>10, <2>2, <2>4, <3>1, <3>4, <3>6, <3>7 DEF InBatch
    <3> QED BY <2>1, <2>3, <2>4, <3>1, <3>8 DEF Control, Waiting, Acting, Busy, Kept, LoopInv
  <2>5. CASE pc' = "stopping" /\ Extends(mem)'
    <3>1. Control'
      BY <2>5 DEF Control, Waiting, Acting, Busy
    <3> QED BY <2>1, <2>3, <3>1 DEF Kept, LoopInv
  <2> QED BY <2>1, <2>4, <2>5
<1> QED BY <1>7, <1>9, <1>10 DEF Record, t, kind, told

\* The batch reconcile takes up is that of the transcript's last step, and the
\* operations it finds are those of the batch's calls.
LEMMA PendingBatch ==
    ASSUME NEW t \in Transcript, WellFormed(t), t.pending
    PROVE  /\ LastBatch(t) = t.steps
           /\ t.steps \in 1 .. MaxSteps
           /\ Len(t.batch[t.steps]) \in 1 .. MaxCalls
           /\ Unanswered(t) = {k \in 1 .. Len(t.batch[t.steps]) :
                                 <<t.steps, k>> \notin Completed(t)}
           /\ \A k \in 1 .. Len(t.batch[t.steps]) :
                 Match(t, k) = journal[<<t.steps, k>>] /\ <<t.steps, k>> \in Call
<1> DEFINE n == Len(t.batch[t.steps])
           P(s) == /\ t.batch[s] # <<>>
                   /\ \A r \in s + 1 .. MaxSteps : t.batch[r] = <<>>
<1>1. t.steps \in 1 .. MaxSteps /\ n \in 1 .. MaxCalls
  BY BatchLength DEF WellFormed
<1>2. P(t.steps)
  <2>1. \A r \in t.steps + 1 .. MaxSteps : r \in 1 .. MaxSteps /\ r > t.steps
    BY <1>1, LimitsAssumption
  <2> QED BY <2>1 DEF WellFormed
<1>3. \A s \in 1 .. MaxSteps : P(s) => s = t.steps
  <2> SUFFICES ASSUME NEW s \in 1 .. MaxSteps, P(s), s # t.steps PROVE FALSE
    OBVIOUS
  <2>1. CASE s > t.steps
    BY <2>1 DEF WellFormed
  <2>2. CASE s < t.steps
    <3>1. t.steps \in s + 1 .. MaxSteps
      BY <1>1, <2>2, LimitsAssumption
    <3> QED BY <3>1 DEF WellFormed
  <2> QED BY <1>1, <2>1, <2>2, LimitsAssumption
<1>4. LastBatch(t) = t.steps
  <2>1. LastBatch(t) = CHOOSE s \in 1 .. MaxSteps : P(s)
    BY DEF LastBatch
  <2> HIDE DEF P
  <2>2. LastBatch(t) \in 1 .. MaxSteps /\ P(LastBatch(t))
    BY <1>1, <1>2, <2>1
  <2> QED BY <1>3, <2>2
<1>5. \A k \in 1 .. n : k \in 1 .. MaxCalls
  BY <1>1, LimitsAssumption
<1>6. \A k \in 1 .. n : <<t.steps, k>> \in Call
  BY <1>1, <1>5 DEF Call
<1> QED BY <1>1, <1>4, <1>6 DEF Unanswered, Match

\* What reconcile makes of a pending transcript may be saved.
LEMMA ReconciledExtends ==
    ASSUME LoopInv, saved.pending, saved.outcome = "open", Reconcilable(saved)
    PROVE  Extends(Reconciled(saved)) /\ ~Reconciled(saved).pending
<1>1. /\ saved \in Transcript /\ WellFormed(saved) /\ Extends(saved)
      /\ journal \in [Call -> Operation]
  BY SavedExtends DEF LoopInv, TypeInv
<1> DEFINE n   == Len(saved.batch[saved.steps])
           K   == Unanswered(saved)
           rec == Recovered(saved)
           told(k) == IF k \in rec THEN Match(saved, k).state ELSE "skipped"
<1>3. saved.steps \in 1 .. MaxSteps /\ n \in 1 .. MaxCalls
  BY <1>1, BatchLength DEF WellFormed
<1>4. LastBatch(saved) = saved.steps
  BY <1>1, PendingBatch
<1>5. /\ K = {k \in 1 .. n : <<saved.steps, k>> \notin Completed(saved)}
      /\ rec = {k \in K : Match(saved, k).state # "none"}
      /\ \A k \in 1 .. n : Match(saved, k) = journal[<<saved.steps, k>>] /\ <<saved.steps, k>> \in Call
  BY <1>1, PendingBatch DEF Recovered
<1>6. ASSUME NEW k \in K
      PROVE  /\ told(k) \in Says
             /\ Match(saved, k).state = IF told(k) = "skipped" THEN "none" ELSE told(k)
             /\ <<saved.steps, k>> \in Call /\ k \in 1 .. n
             /\ <<saved.steps, k>> \notin Completed(saved)
             /\ Match(saved, k) = journal[<<saved.steps, k>>]
  <2>1. /\ k \in 1 .. n /\ <<saved.steps, k>> \in Call /\ <<saved.steps, k>> \notin Completed(saved)
        /\ Match(saved, k) = journal[<<saved.steps, k>>]
    BY <1>5, <1>6
  <2>2. Match(saved, k).state \in {"none", "begun", "result", "denied"}
    BY <1>1, <2>1 DEF Operation
  <2>3. CASE k \in rec
    <3>1. Match(saved, k).state # "begun" /\ Match(saved, k).state # "none"
      BY <1>5, <1>6, <2>3 DEF Reconcilable
    <3> QED BY <2>1, <2>2, <2>3, <3>1 DEF Says
  <2>4. CASE k \notin rec
    <3>1. Match(saved, k).state = "none"
      BY <1>5, <1>6, <2>4
    <3> QED BY <2>1, <2>4, <3>1 DEF Says
  <2> QED BY <2>3, <2>4
<1>7. \A S : S \subseteq K => Cardinality(S) \in Nat
  <2>1. IsFiniteSet(1 .. n)
    BY <1>3, FS_Interval, LimitsAssumption
  <2>2. K \subseteq 1 .. n
    BY <1>5
  <2>3. \A S : S \subseteq K => IsFiniteSet(S)
    BY <2>1, <2>2, FS_Subset
  <2> QED BY <2>3, FS_CardinalityType
<1> DEFINE t == Reconciled(saved)
           counts == {<<<<saved.steps, k>>, told(k)>> : k \in K}
           finished == \E k \in rec : Match(saved, k).state = "result"
                                      /\ saved.batch[saved.steps][k] = "done"
           ended == IF K # rec THEN "exhausted" ELSE IF finished THEN "done" ELSE saved.outcome
           tools == saved.tools + Cardinality(rec)
           invalid == saved.invalid + Cardinality({k \in rec : Match(saved, k).state = "denied"})
           verify == saved.verify + Cardinality({k \in rec : saved.batch[saved.steps][k] = "recipe"})
<1>8. t = [saved EXCEPT !.answers = saved.answers \cup counts,
             !.tools = tools, !.invalid = invalid, !.verify = verify,
             !.pending = FALSE, !.outcome = ended]
  BY <1>4 DEF Reconciled
<1>9. tools \in Nat /\ invalid \in Nat /\ verify \in Nat
  <2>1. rec \subseteq K
    BY <1>5
  <2>2. /\ Cardinality(rec) \in Nat
        /\ Cardinality({k \in rec : Match(saved, k).state = "denied"}) \in Nat
        /\ Cardinality({k \in rec : saved.batch[saved.steps][k] = "recipe"}) \in Nat
    BY <1>7, <2>1
  <2>3. saved.tools \in Nat /\ saved.invalid \in Nat /\ saved.verify \in Nat
    BY <1>1 DEF Transcript
  <2> QED BY <2>2, <2>3
<1>10. ended \in {"open", "done", "exhausted"}
  BY <1>1
<1> HIDE DEF t, n, K, rec, told, tools, invalid, verify, ended, counts
<1>11. counts \subseteq Call \X Says
  BY <1>6 DEF counts
<1>12. /\ t \in Transcript /\ t.batch = saved.batch /\ t.steps = saved.steps /\ ~t.pending
       /\ t.answers = saved.answers \cup counts
  BY <1>1, <1>8, <1>9, <1>10, <1>11 DEF Transcript
<1> DEFINE says == [k \in K |-> told(k)]
<1>13. says \in [K -> Says] /\ \A k \in K : says[k] = told(k)
  BY <1>6
<1>14. counts = {<<<<saved.steps, k>>, says[k]>> : k \in K}
  BY <1>13 DEF counts
<1> HIDE DEF says
<1>15. t.answers = saved.answers \cup {<<<<saved.steps, k>>, says[k]>> : k \in K}
  BY <1>12, <1>14
<1>16. \A k \in K :
         /\ <<saved.steps, k>> \notin Completed(saved)
         /\ journal[<<saved.steps, k>>].state = IF says[k] = "skipped" THEN "none" ELSE says[k]
  BY <1>6, <1>13
<1>17. K \subseteq 1 .. Len(saved.batch[saved.steps])
       /\ \A k \in 1 .. Len(saved.batch[saved.steps]) :
             k \in K \/ <<saved.steps, k>> \in Completed(saved)
  BY <1>5 DEF n
<1>18. Answers(saved, t, K, says)
  BY <1>1, <1>12, <1>13, <1>15, <1>16, <1>17 DEF Answers
<1> QED BY <1>12, <1>18, Answering DEF t

LEMMA ReconcileKeeps == LoopInv /\ Reconcile => Kept
<1> SUFFICES ASSUME LoopInv, Reconcile PROVE Kept
  OBVIOUS
<1>1. /\ pc = "reconcile" /\ UNCHANGED <<journal, tree, runs, pos, drifts>>
      /\ mem = saved /\ saved.pending /\ saved.outcome = "open" /\ Extends(saved)
  BY SavedExtends DEF Reconcile, LoopInv, Control
<1>2. CASE Return(mem) /\ UNCHANGED faults
  <2>1. faults' \in 0 .. MaxFaults
    BY <1>2 DEF LoopInv, TypeInv
  <2> QED BY <1>1, <1>2, <2>1, AfterReturn
<1> DEFINE t == Reconciled(saved)
           next == IF t.outcome = "open" THEN "open" ELSE "idle"
<1>3. CASE Reconcilable(saved) /\ Save(t, next)
  <2>1. Extends(t) /\ ~t.pending
    BY <1>1, <1>3, ReconciledExtends
  <2> HIDE DEF t
  <2>2. /\ next \in {"idle"} \cup Waiting /\ Save(t, next)
        /\ next # "idle" => t.outcome = "open" /\ ~t.pending
    BY <1>3, <2>1 DEF Waiting
  <2> HIDE DEF next
  <2> QED BY <1>1, <2>1, <2>2, AfterSave
<1> QED BY <1>1, <1>2, <1>3 DEF Reconcile

-----------------------------------------------------------------------------
\* Every step of the loop keeps the invariant and is a step of the session.
LEMMA LoopStep == LoopInv /\ [Next]_vars => Kept
<1> SUFFICES ASSUME LoopInv, [Next]_vars PROVE Kept
  OBVIOUS
<1>1. CASE Step
  BY <1>1, EnterKeeps, ReconcileKeeps, OpenKeeps, ConcludeKeeps, AbandonKeeps, ChatKeeps,
     SkipKeeps, IntendKeeps, BeginKeeps, ExecuteKeeps, CompleteKeeps, RecordKeeps,
     StuckKeeps, StopKeeps DEF Step
<1>2. CASE UNCHANGED vars
  <2>1. UNCHANGED <<saved, journal, tree, runs, mem, pos, pc, faults, drifts>>
    BY <1>2 DEF vars
  <2>2. TypeInv' /\ WellFormed(saved') /\ Truthful(saved)' /\ Journalled'
    BY <2>1 DEF LoopInv, TypeInv, Truthful, Journalled
  <2>3. Control'
    <3>1. Extends(mem) => Extends(mem)'
      BY <2>1 DEF Extends, Truthful
    <3>2. InBatch => InBatch'
      BY <2>1 DEF InBatch, Current
    <3> QED BY <2>1, <3>1, <3>2 DEF LoopInv, Control
  <2>4. UNCHANGED Session!vars
    BY <2>1 DEF Session!vars
  <2> QED BY <2>2, <2>3, <2>4 DEF Kept, LoopInv
<1> QED BY <1>1, <1>2, CrashKeeps, DriftKeeps DEF Next

\* A task starts with an empty transcript, which is an empty session.
LEMMA LoopInit == Init => LoopInv /\ Session!Init
<1> SUFFICES ASSUME Init PROVE LoopInv /\ Session!Init
  OBVIOUS
<1> USE DEF Init
<1>1. /\ saved = EmptyTranscript /\ saved.answers = {} /\ saved.steps = 0
      /\ ~saved.pending /\ saved.outcome = "open"
      /\ \A s \in 1 .. MaxSteps : saved.batch[s] = <<>>
  BY DEF EmptyTranscript
<1>2. saved \in Transcript
  BY LimitsAssumption DEF EmptyTranscript, Transcript
<1>3. TypeInv
  <2>1. NoOperation \in Operation
    BY DEF NoOperation, Operation
  <2>2. 1 \in 1 .. MaxCalls
    BY LimitsAssumption
  <2> QED BY <1>2, <2>1, <2>2, LimitsAssumption, TreesAssumption DEF TypeInv, Place
<1>4. AllCalls(saved) = {}
  <2> SUFFICES ASSUME NEW c \in Call, c[2] <= Len(saved.batch[c[1]]) PROVE FALSE
    BY DEF AllCalls
  <2>1. c[1] \in 1 .. MaxSteps /\ c[2] \in 1 .. MaxCalls
    BY DEF Call
  <2>2. Len(saved.batch[c[1]]) = 0
    BY <1>1, <2>1
  <2> QED BY <2>1, <2>2, LimitsAssumption
<1>5. WellFormed(saved) /\ Truthful(saved)
  BY <1>1, <1>4 DEF WellFormed, Truthful
<1>6. Journalled
  BY DEF Journalled, NoOperation
<1>7. Control
  BY DEF Control, Waiting, Acting, Busy
<1>8. Session!Init
  BY <1>1, <1>4 DEF Session!Init
<1> QED BY <1>3, <1>5, <1>6, <1>7, <1>8 DEF LoopInv

\* Every reachable state of Engine.Step, with its crashes, failed writes and
\* reconciliations, is one from which the session can be resumed.
THEOREM LoopInvariant == Spec => []LoopInv
<1>1. LoopInv /\ [Next]_vars => LoopInv'
  BY LoopStep DEF Kept
<1> QED BY <1>1, LoopInit, PTL DEF Spec

\* Type correctness of the transcript, the journal and the loop's position, for
\* every limit and every set of batches.
THEOREM ToolLoopTypeCorrect == Spec => []TypeInv
<1>1. LoopInv => TypeInv
  BY DEF LoopInv
<1> QED BY <1>1, LoopInvariant, PTL

\* A transcript that is not pending has exactly one answer for every call:
\* what native.go's pending flag is there for.
THEOREM NoOrphanedCall == Spec => []EveryCallAnswered
<1>1. LoopInv => EveryCallAnswered
  BY DEF LoopInv, WellFormed, EveryCallAnswered, Completed
<1> QED BY <1>1, LoopInvariant, PTL

\* Engine.Step, with any crashes and reconciliations, implements the session:
\* no tool call runs twice or unannounced, no answer is untrue.
THEOREM LoopKeepsSession == Spec => KeepsSession
<1>1. LoopInv /\ [Next]_vars => [Session!Next]_(Session!vars)
  BY LoopStep DEF Kept
<1>2. Init => Session!Init
  BY LoopInit
<1> QED BY <1>1, <1>2, LoopInvariant, PTL DEF Spec, KeepsSession, Session!Spec

-----------------------------------------------------------------------------
(* The budgets *)

\* The calls a transcript has answers for and that were begun.
Taken(t, kinds) ==
    {c \in Completed(t) : journal[c].state # "none" /\ KindOf(t, c) \in kinds}

\* The counters of a transcript count its answers, those reconcile restored
\* from the journal as well.
Tally(t) ==
    /\ t.tools = Cardinality(Taken(t, Kind))
    /\ t.verify = Cardinality(Taken(t, {"recipe"}))
    /\ t.invalid = Cardinality(Taken(t, {"denied"}))

\* t holds the calls of the saved transcript, and they ask for the same.
SameCalls(t) == \A c \in AllCalls(saved) : KindOf(t, c) = KindOf(saved, c)

\* A call is on record as denied exactly when authorize refuses it.
Verdicts ==
    \A c \in Call :
        /\ journal[c].state = "denied" => KindOf(saved, c) = "denied"
        /\ journal[c].state = "result" => KindOf(saved, c) # "denied"

CountInv ==
    /\ WithinBudget /\ Verdicts /\ Tally(saved)
    /\ pc # "idle" => Tally(mem) /\ SameCalls(mem)
    /\ pc = "exec" => ~Spent(mem, KindOf(mem, Current))

\* There are finitely many calls, so every set of them has a size.
LEMMA CallsFinite ==
    \A S : S \subseteq Call => IsFiniteSet(S) /\ Cardinality(S) \in Nat
<1>1. IsFiniteSet(1 .. MaxSteps) /\ IsFiniteSet(1 .. MaxCalls)
  BY FS_Interval, LimitsAssumption
<1>2. IsFiniteSet(Call)
  BY <1>1, FS_Product DEF Call
<1>3. \A S : S \subseteq Call => IsFiniteSet(S)
  BY <1>2, FS_Subset
<1> QED BY <1>3, FS_CardinalityType

\* Answers for calls that were never begun do not count.
LEMMA TallySame ==
    ASSUME NEW t, NEW u, Tally(t),
           u.tools = t.tools, u.verify = t.verify, u.invalid = t.invalid,
           Completed(t) \subseteq Completed(u),
           \A c \in Completed(t) : KindOf(u, c) = KindOf(t, c),
           \A c \in Completed(u) \ Completed(t) : journal[c].state = "none"
    PROVE  Tally(u)
<1>1. \A kinds : Taken(u, kinds) = Taken(t, kinds)
  BY DEF Taken
<1> QED BY <1>1 DEF Tally

\* The calls of new that were begun and are of these kinds.
More(t, new, kinds) ==
    {c \in new : journal[c].state # "none" /\ KindOf(t, c) \in kinds}

\* Answers for calls that were begun count, each once.
LEMMA TallyMore ==
    ASSUME NEW t, NEW u, NEW new, Tally(t), u.batch = t.batch,
           Completed(t) \subseteq Call, new \subseteq Call,
           Completed(u) = Completed(t) \cup new, new \cap Completed(t) = {},
           u.tools = t.tools + Cardinality(More(t, new, Kind)),
           u.verify = t.verify + Cardinality(More(t, new, {"recipe"})),
           u.invalid = t.invalid + Cardinality(More(t, new, {"denied"}))
    PROVE  Tally(u)
<1> DEFINE more(kinds) == More(t, new, kinds)
<1>1. ASSUME NEW kinds
      PROVE  Cardinality(Taken(u, kinds)) = Cardinality(Taken(t, kinds)) + Cardinality(more(kinds))
  <2>1. Taken(u, kinds) = Taken(t, kinds) \cup more(kinds)
    BY DEF Taken, KindOf, More
  <2>2. Taken(t, kinds) \cap more(kinds) = {}
    BY DEF Taken, More
  <2>3. Taken(t, kinds) \subseteq Call /\ more(kinds) \subseteq Call
    BY DEF Taken, More
  <2> HIDE DEF more
  <2>4. /\ IsFiniteSet(Taken(t, kinds)) /\ IsFiniteSet(more(kinds))
        /\ Cardinality(Taken(t, kinds)) \in Nat /\ Cardinality(more(kinds)) \in Nat
    BY <2>3, CallsFinite
  <2>5. Cardinality(Taken(t, kinds) \cup more(kinds)) =
          Cardinality(Taken(t, kinds)) + Cardinality(more(kinds))
            - Cardinality(Taken(t, kinds) \cap more(kinds))
    BY <2>4, FS_Union
  <2>6. Cardinality(Taken(t, kinds) \cap more(kinds)) = 0
    BY <2>2, FS_EmptySet
  <2> QED BY <2>1, <2>4, <2>5, <2>6
<1> QED BY <1>1 DEF Tally

\* The calls of a batch are as many as their places in it.
LEMMA PlacesOfCalls ==
    ASSUME NEW s \in 1 .. MaxSteps, NEW K, K \subseteq 1 .. MaxCalls
    PROVE  Cardinality({<<s, k>> : k \in K}) = Cardinality(K)
<1> DEFINE T == {<<s, k>> : k \in K}
           f == [k \in K |-> <<s, k>>]
<1>1. IsFiniteSet(K)
  <2>1. IsFiniteSet(1 .. MaxCalls)
    BY FS_Interval, LimitsAssumption
  <2> QED BY <2>1, FS_Subset
<1>2. f \in Bijection(K, T)
  <2>1. f \in [K -> T] /\ \A k \in K : f[k] = <<s, k>>
    OBVIOUS
  <2>2. \A j, k \in K : f[j] = f[k] => j = k
    BY <2>1
  <2>3. \A c \in T : \E k \in K : f[k] = c
    BY <2>1
  <2> HIDE DEF f, T
  <2> QED BY <2>1, <2>2, <2>3, Fun_IsBij
<1>3. ExistsBijection(K, T)
  BY <1>2, Fun_ExistsBij
<1> QED BY <1>1, <1>3, FS_Bijection

\* What a transcript counts does not depend on its manifest.
LEMMA TallyStamped ==
    ASSUME NEW t \in Transcript, NEW m, Tally(t), SameCalls(t)
    PROVE  Tally([t EXCEPT !.cand = m]) /\ SameCalls([t EXCEPT !.cand = m])
<1> DEFINE u == [t EXCEPT !.cand = m]
<1>1. /\ u.answers = t.answers /\ u.batch = t.batch /\ u.tools = t.tools
      /\ u.verify = t.verify /\ u.invalid = t.invalid
  BY DEF Transcript
<1> HIDE DEF u
<1>2. Completed(u) = Completed(t) /\ \A c : KindOf(u, c) = KindOf(t, c)
  BY <1>1 DEF Completed, KindOf
<1>3. Tally(u)
  BY <1>1, <1>2, TallySame
<1>4. SameCalls(u)
  BY <1>2 DEF SameCalls
<1> QED BY <1>3, <1>4 DEF u

\* The budgets are kept when a transcript that counts right replaces the saved
\* one and no operation is begun.
LEMMA BudgetKept ==
    ASSUME LoopInv, CountInv, journal' = journal, SameCalls(saved')
    PROVE  WithinBudget' /\ Verdicts'
<1>1. \A c \in Call : journal[c].state # "none" => KindOf(saved', c) = KindOf(saved, c)
  BY DEF LoopInv, Journalled, SameCalls
<1>2. \A kinds : {c \in Call : journal'[c].state # "none" /\ KindOf(saved', c) \in kinds}
               = {c \in Call : journal[c].state # "none" /\ KindOf(saved, c) \in kinds}
  BY <1>1
<1>3. WithinBudget'
  BY <1>2 DEF CountInv, WithinBudget
<1>4. Verdicts'
  BY <1>1 DEF CountInv, Verdicts
<1> QED BY <1>3, <1>4

\* What every write of the transcript does to the counts.
LEMMA CountSaving ==
    ASSUME LoopInv, CountInv, NEW STATE t, t \in Transcript, Tally(t), SameCalls(t),
           NEW STATE next, Save(t, next), UNCHANGED journal,
           next = "exec" => pos' = pos /\ ~Spent(t, KindOf(t, <<t.steps, pos>>))
    PROVE  CountInv'
<1>1. CASE /\ mem' = [t EXCEPT !.cand = tree]
           /\ saved' = mem'
           /\ pc' = next
  <2>1. Tally(saved') /\ SameCalls(saved')
    BY <1>1, TallyStamped
  <2>2. WithinBudget' /\ Verdicts'
    BY <2>1, BudgetKept
  <2>3. Tally(saved)' /\ Tally(mem)'
    BY <1>1, <2>1 DEF Tally, Taken
  <2>4. SameCalls(mem)'
    BY <1>1 DEF SameCalls
  <2>5. ASSUME next = "exec" PROVE ~Spent(mem, KindOf(mem, Current))'
    <3>1. /\ mem'.steps = t.steps /\ mem'.batch = t.batch /\ mem'.tools = t.tools
          /\ mem'.verify = t.verify /\ mem'.invalid = t.invalid
      BY <1>1 DEF Transcript
    <3> QED BY <2>5, <3>1 DEF Spent, KindOf, Current
  <2> QED BY <1>1, <2>2, <2>3, <2>4, <2>5 DEF CountInv
<1>2. CASE /\ \E m \in {tree, None} : mem' = [t EXCEPT !.cand = m]
           /\ pc' = "stopping"
           /\ UNCHANGED saved
  <2>1. Tally(mem') /\ SameCalls(mem')
    BY <1>2, TallyStamped
  <2>2. WithinBudget' /\ Verdicts'
    BY <1>2, BudgetKept DEF SameCalls
  <2>3. Tally(saved)' /\ Tally(mem)' /\ SameCalls(mem)'
    BY <1>2, <2>1 DEF CountInv, Tally, Taken, SameCalls
  <2> QED BY <1>2, <2>2, <2>3 DEF CountInv
<1> QED BY <1>1, <1>2 DEF Save

\* A step that writes neither the transcript nor the journal.
LEMMA CountReturning ==
    ASSUME LoopInv, CountInv, UNCHANGED <<saved, journal>>,
           pc' # "exec", pc' # "idle" => Tally(mem') /\ SameCalls(mem')
    PROVE  CountInv'
<1>1. WithinBudget' /\ Verdicts'
  BY BudgetKept DEF SameCalls
<1>2. Tally(saved)' /\ (pc' # "idle" => Tally(mem)' /\ SameCalls(mem)')
  BY DEF CountInv, Tally, Taken, SameCalls
<1> QED BY <1>1, <1>2 DEF CountInv

\* A transcript with the same messages and counters counts the same.
LEMMA CountSame ==
    ASSUME CountInv, pc # "idle", NEW u, u.batch = mem.batch, u.answers = mem.answers,
           u.tools = mem.tools, u.verify = mem.verify, u.invalid = mem.invalid
    PROVE  Tally(u) /\ SameCalls(u)
<1>1. Completed(u) = Completed(mem) /\ \A c : KindOf(u, c) = KindOf(mem, c)
  BY DEF Completed, KindOf
<1>2. Tally(u)
  BY <1>1, TallySame DEF CountInv
<1>3. SameCalls(u)
  BY <1>1 DEF CountInv, SameCalls
<1> QED BY <1>2, <1>3

LEMMA CountOutside ==
    LoopInv /\ CountInv /\ (Enter \/ Open \/ Conclude \/ Abandon \/ Stuck) => CountInv'
<1> SUFFICES ASSUME LoopInv, CountInv, Enter \/ Open \/ Conclude \/ Abandon \/ Stuck
             PROVE  CountInv'
  OBVIOUS
<1>1. mem \in Transcript
  BY DEF LoopInv, TypeInv
<1>2. CASE Enter
  <2>1. Tally(mem') /\ SameCalls(mem')
    BY <1>2 DEF Enter, CountInv, SameCalls
  <2> QED BY <1>2, <2>1, CountReturning DEF Enter
<1>3. CASE Open
  <2> DEFINE t == [mem EXCEPT !.seeded = TRUE]
  <2>1. /\ t \in Transcript /\ t.batch = mem.batch /\ t.answers = mem.answers
        /\ t.tools = mem.tools /\ t.verify = mem.verify /\ t.invalid = mem.invalid
    BY <1>1 DEF Transcript
  <2>2. Save(t, "loop") /\ UNCHANGED journal /\ pc # "idle"
    BY <1>3 DEF Open
  <2> HIDE DEF t
  <2>3. Tally(t) /\ SameCalls(t)
    BY <2>1, <2>2, CountSame
  <2> QED BY <2>1, <2>2, <2>3, CountSaving
<1>4. ASSUME pc # "idle", NEW o \in {"stopped", "exhausted"}, UNCHANGED journal,
             Save([mem EXCEPT !.outcome = o], "idle")
      PROVE  CountInv'
  <2> DEFINE t == [mem EXCEPT !.outcome = o]
  <2>1. /\ t \in Transcript /\ t.batch = mem.batch /\ t.answers = mem.answers
        /\ t.tools = mem.tools /\ t.verify = mem.verify /\ t.invalid = mem.invalid
    BY <1>1 DEF Transcript
  <2>2. Save(t, "idle")
    BY <1>4
  <2> HIDE DEF t
  <2>3. Tally(t) /\ SameCalls(t)
    BY <1>4, <2>1, CountSame
  <2> QED BY <1>4, <2>1, <2>2, <2>3, CountSaving
<1>5. ASSUME pc = "loop", mem.steps < MaxSteps
      PROVE  /\ Asked \in Transcript /\ Tally(Asked) /\ SameCalls(Asked)
             /\ Asked.batch = mem.batch /\ Asked.answers = mem.answers
             /\ Asked.tools = mem.tools /\ Asked.verify = mem.verify
             /\ Asked.invalid = mem.invalid
  <2>1. mem.steps + 1 \in 0 .. MaxSteps
    BY <1>1, <1>5, LimitsAssumption DEF Transcript
  <2>2. /\ Asked \in Transcript /\ Asked.batch = mem.batch /\ Asked.answers = mem.answers
        /\ Asked.tools = mem.tools /\ Asked.verify = mem.verify
        /\ Asked.invalid = mem.invalid
    BY <1>1, <2>1 DEF Transcript, Asked
  <2> QED BY <1>5, <2>2, CountSame
<1>6. CASE Conclude
  <2>1. pc = "loop" /\ UNCHANGED journal
    BY <1>6 DEF Conclude
  <2>2. ASSUME mem.steps < MaxSteps, Save([Asked EXCEPT !.outcome = "stopped"], "idle")
        PROVE  CountInv'
    <3> DEFINE t == [Asked EXCEPT !.outcome = "stopped"]
    <3>1. /\ t \in Transcript /\ t.batch = mem.batch /\ t.answers = mem.answers
          /\ t.tools = mem.tools /\ t.verify = mem.verify /\ t.invalid = mem.invalid
      BY <1>5, <2>1, <2>2 DEF Transcript
    <3>2. Save(t, "idle")
      BY <2>2
    <3> HIDE DEF t
    <3>3. Tally(t) /\ SameCalls(t)
      BY <2>1, <3>1, CountSame
    <3> QED BY <2>1, <3>1, <3>2, <3>3, CountSaving
  <2> QED BY <1>4, <1>6, <2>1, <2>2 DEF Conclude, Finish
<1>7. CASE Stuck
  BY <1>4, <1>7 DEF Stuck, Finish
<1>8. CASE Abandon
  <2>1. /\ pc = "loop" /\ mem.steps < MaxSteps /\ UNCHANGED <<saved, journal>>
        /\ pc' = "stopping" /\ mem' \in {mem, Asked}
    BY <1>8 DEF Abandon, Return
  <2>2. Tally(mem') /\ SameCalls(mem')
    BY <1>5, <2>1 DEF CountInv
  <2> QED BY <2>1, <2>2, CountReturning
<1> QED BY <1>2, <1>3, <1>6, <1>7, <1>8

LEMMA CountChat == LoopInv /\ CountInv /\ Chat => CountInv'
<1> SUFFICES ASSUME LoopInv, CountInv, Chat PROVE CountInv'
  OBVIOUS
<1>1. /\ mem = saved /\ mem \in Transcript /\ WellFormed(saved)
      /\ UNCHANGED <<saved, journal>> /\ pc' = "call" /\ pc = "loop" /\ mem.steps < MaxSteps
  BY DEF LoopInv, TypeInv, Control, Chat, Waiting
<1>2. PICK b \in Batches : mem' = [Asked EXCEPT !.batch[mem.steps + 1] = b]
  BY DEF Chat
<1> DEFINE s == mem.steps + 1
<1>3. s \in 1 .. MaxSteps /\ s > mem.steps
  BY <1>1, LimitsAssumption DEF Transcript
<1>4. /\ mem'.batch = [saved.batch EXCEPT ![s] = b] /\ mem'.answers = mem.answers
      /\ mem'.tools = mem.tools /\ mem'.verify = mem.verify /\ mem'.invalid = mem.invalid
  BY <1>1, <1>2, <1>3 DEF Transcript, Asked
<1>5. saved.batch[s] = <<>>
  BY <1>1, <1>3 DEF WellFormed
<1> HIDE DEF s
<1>6. ASSUME NEW c \in AllCalls(saved) PROVE KindOf(mem', c) = KindOf(saved, c)
  <2>1. c[1] \in 1 .. MaxSteps /\ c[2] \in 1 .. MaxCalls /\ c[2] <= Len(saved.batch[c[1]])
    BY DEF AllCalls, Call
  <2>2. c[1] # s
    <3>1. Len(saved.batch[s]) = 0
      BY <1>5
    <3> QED BY <2>1, <3>1, LimitsAssumption
  <2>3. saved.batch \in [1 .. MaxSteps -> Batches \cup {<<>>}]
    BY <1>1 DEF Transcript
  <2>4. mem'.batch[c[1]] = saved.batch[c[1]]
    BY <1>4, <2>1, <2>2, <2>3
  <2> QED BY <2>4 DEF KindOf
<1>7. Completed(mem') = Completed(mem) /\ Completed(mem) \subseteq AllCalls(saved)
  BY <1>1, <1>4 DEF Completed, WellFormed
<1>8. Tally(mem)
  BY <1>1 DEF CountInv
<1>9. Tally(mem')
  BY <1>1, <1>4, <1>6, <1>7, <1>8, TallySame
<1>10. SameCalls(mem')
  BY <1>6 DEF SameCalls
<1> QED BY <1>1, <1>9, <1>10, CountReturning

LEMMA CountSkip == LoopInv /\ CountInv /\ Skip => CountInv'
<1> SUFFICES ASSUME LoopInv, CountInv, Skip PROVE CountInv'
  OBVIOUS
<1> DEFINE n == Len(mem.batch[mem.steps])
           skipped == {<<<<mem.steps, k>>, "skipped">> : k \in pos .. n}
           t == [mem EXCEPT !.answers = @ \cup skipped,
                            !.pending = FALSE, !.outcome = "exhausted"]
<1>1. pc = "call" /\ InBatch /\ UNCHANGED journal
  BY DEF Skip, LoopInv, Control, Busy
<1>2. /\ mem \in Transcript /\ mem.steps \in 1 .. MaxSteps /\ n \in 1 .. MaxCalls
      /\ pos \in 1 .. n /\ \A k \in 1 .. n : <<mem.steps, k>> \in Call
  BY <1>1, CurrentCall DEF Busy
<1>3. pos .. n \subseteq 1 .. n
  BY <1>2, LimitsAssumption
<1>4. skipped \subseteq Call \X Says
  BY <1>2, <1>3 DEF Says
<1>5. Save(t, "idle")
  BY <1>2 DEF Skip, Finish, Transcript
<1>6. \A k \in pos .. n : journal[<<mem.steps, k>>].state = "none"
  BY <1>1, <1>2, LimitsAssumption DEF InBatch, Current
<1> HIDE DEF n, skipped
<1>7. /\ t \in Transcript /\ t.batch = mem.batch /\ t.answers = mem.answers \cup skipped
      /\ t.tools = mem.tools /\ t.verify = mem.verify /\ t.invalid = mem.invalid
  BY <1>2, <1>4 DEF Transcript
<1> HIDE DEF t
<1>8. \A a \in skipped : \E k \in pos .. n : a[1] = <<mem.steps, k>>
  BY DEF skipped
<1>9. \A c \in Completed(t) \ Completed(mem) : journal[c].state = "none"
  BY <1>6, <1>7, <1>8 DEF Completed
<1>10. Completed(mem) \subseteq Completed(t) /\ \A c : KindOf(t, c) = KindOf(mem, c)
  BY <1>7 DEF Completed, KindOf
<1>11. Tally(mem) /\ SameCalls(mem)
  BY <1>1 DEF CountInv
<1>12. Tally(t)
  BY <1>7, <1>9, <1>10, <1>11, TallySame
<1>13. SameCalls(t)
  BY <1>10, <1>11 DEF SameCalls
<1> QED BY <1>1, <1>5, <1>7, <1>12, <1>13, CountSaving

LEMMA CountIntend == LoopInv /\ CountInv /\ Intend => CountInv'
<1> SUFFICES ASSUME LoopInv, CountInv, Intend PROVE CountInv'
  OBVIOUS
<1> DEFINE t == [mem EXCEPT !.pending = TRUE]
<1>1. /\ pc = "call" /\ UNCHANGED <<journal, pos>> /\ Save(t, "exec")
      /\ ~Spent(mem, KindOf(mem, <<mem.steps, pos>>)) /\ mem \in Transcript
  BY DEF Intend, Current, LoopInv, TypeInv
<1>2. /\ t \in Transcript /\ t.batch = mem.batch /\ t.answers = mem.answers
      /\ t.tools = mem.tools /\ t.verify = mem.verify /\ t.invalid = mem.invalid
      /\ t.steps = mem.steps
  BY <1>1 DEF Transcript
<1> HIDE DEF t
<1>3. Tally(t) /\ SameCalls(t)
  BY <1>1, <1>2, CountSame
<1>4. ~Spent(t, KindOf(t, <<t.steps, pos>>))
  BY <1>1, <1>2 DEF Spent, KindOf
<1> QED BY <1>1, <1>2, <1>3, <1>4, CountSaving

\* The operation of the current call is begun, or changes its state later on;
\* no answer of the saved transcript is about it.
LEMMA CountWriting ==
    ASSUME LoopInv, CountInv, pc \in Acting, NEW x \in Operation, x.state # "none",
           journal' = [journal EXCEPT ![Current] = x], UNCHANGED <<saved, mem, pos>>,
           x.state = "denied" => KindOf(mem, Current) = "denied",
           x.state = "result" => KindOf(mem, Current) # "denied",
           pc' \notin {"exec", "idle"}, WithinBudget'
    PROVE  CountInv'
<1>1. /\ journal'[Current] = x
      /\ \A c \in Call : c # Current => journal'[c] = journal[c]
      /\ mem = saved /\ Current \in Call
  BY Writing
<1>2. Current \notin Completed(saved) /\ Completed(saved) \subseteq Call
  <2>1. Current \notin Completed(mem)
    BY CurrentCall DEF Busy
  <2>2. WellFormed(saved)
    BY DEF LoopInv
  <2> QED BY <1>1, <2>1, <2>2 DEF WellFormed, Completed, AllCalls
<1>3. \A c \in Completed(saved) : journal'[c] = journal[c]
  BY <1>1, <1>2
<1>4. Tally(saved)'
  BY <1>3 DEF CountInv, Tally, Taken
<1>5. Verdicts'
  BY <1>1 DEF CountInv, Verdicts
<1> QED BY <1>1, <1>4, <1>5 DEF CountInv, SameCalls

\* The one step that begins an operation: everything begun before is answered
\* and counted, and the counters are below their limits.
LEMMA CountBegin == LoopInv /\ CountInv /\ Begin => CountInv'
<1> SUFFICES ASSUME LoopInv, CountInv, Begin PROVE CountInv'
  OBVIOUS
<1>1. pc = "exec"
  BY DEF Begin
<1>2. CASE Fault /\ Return(mem) /\ UNCHANGED journal
  <2>1. /\ UNCHANGED <<saved, journal>> /\ pc' = "stopping" /\ mem' = mem
        /\ Tally(mem) /\ SameCalls(mem)
    BY <1>1, <1>2 DEF Return, CountInv
  <2> QED BY <2>1, CountReturning
<1>3. CASE /\ journal' = [journal EXCEPT ![Current] =
                            [state |-> "begun", before |-> tree, after |-> None]]
           /\ pc' = "begun"
           /\ UNCHANGED <<saved, mem, faults>>
  <2> DEFINE x == [state |-> "begun", before |-> tree, after |-> None]
             begun(kinds) == {c \in Call : journal[c].state # "none"
                                            /\ KindOf(saved, c) \in kinds}
             after(kinds) == {c \in Call : journal'[c].state # "none"
                                            /\ KindOf(saved, c) \in kinds}
  <2>1. x \in Operation /\ x.state = "begun"
    BY DEF LoopInv, TypeInv, Operation
  <2> HIDE DEF x
  <2>2. journal' = [journal EXCEPT ![Current] = x] /\ UNCHANGED pos
    BY <1>3 DEF x, Begin
  <2>3. /\ journal'[Current] = x
        /\ \A c \in Call : c # Current => journal'[c] = journal[c]
        /\ mem = saved /\ saved.pending /\ Current \in Call /\ Current \in AllCalls(saved)
    BY <1>1, <1>3, <2>1, <2>2, Writing DEF Acting
  <2>4. /\ InBatch /\ WellFormed(saved) /\ Journalled /\ saved \in Transcript
        /\ ~Spent(saved, KindOf(saved, Current)) /\ Tally(saved)
    BY <1>1, <2>3 DEF LoopInv, TypeInv, Control, Busy, Acting, CountInv
  <2>5. ASSUME NEW c \in Call, journal[c].state # "none" PROVE c \in Completed(saved)
    <3>1. c \in AllCalls(saved)
      BY <2>4, <2>5 DEF Journalled
    <3>2. CASE c[1] # saved.steps
      BY <2>3, <2>4, <3>1, <3>2 DEF WellFormed
    <3>3. CASE c[1] = saved.steps
      <4>1. /\ mem.steps \in 1 .. MaxSteps /\ Len(mem.batch[mem.steps]) \in 1 .. MaxCalls
            /\ pos \in 1 .. Len(mem.batch[mem.steps])
        BY <1>1, CurrentCall DEF Busy, Acting
      <4>2. /\ c = <<mem.steps, c[2]>> /\ c[2] \in 1 .. MaxCalls
            /\ c[2] <= Len(mem.batch[mem.steps])
        BY <2>3, <3>1, <3>3 DEF AllCalls, Call
      <4>3. c[2] \in 1 .. Len(mem.batch[mem.steps])
        BY <4>1, <4>2, LimitsAssumption
      <4>4. ~(c[2] > pos)
        BY <2>4, <2>5, <4>2, <4>3 DEF InBatch
      <4>5. c[2] # pos
        BY <1>1, <2>4, <2>5, <4>2 DEF InBatch, Current
      <4>6. c[2] < pos
        BY <4>1, <4>3, <4>4, <4>5, LimitsAssumption
      <4> QED BY <2>3, <2>4, <4>2, <4>3, <4>6 DEF InBatch
    <3> QED BY <3>2, <3>3
  <2>6. ASSUME NEW kinds PROVE begun(kinds) = Taken(saved, kinds)
    BY <2>4, <2>5 DEF Taken, Completed, WellFormed, AllCalls
  <2>7. journal[Current].state = "none"
    BY <1>1, <2>4 DEF InBatch
  <2>8. ASSUME NEW kinds
        PROVE  /\ KindOf(saved, Current) \notin kinds => after(kinds) = begun(kinds)
               /\ KindOf(saved, Current) \in kinds =>
                     /\ after(kinds) = begun(kinds) \cup {Current}
                     /\ Cardinality(after(kinds)) = Cardinality(Taken(saved, kinds)) + 1
    <3>1. KindOf(saved, Current) \notin kinds => after(kinds) = begun(kinds)
      BY <2>3, <2>7
    <3>2. KindOf(saved, Current) \in kinds => after(kinds) = begun(kinds) \cup {Current}
      BY <2>1, <2>3
    <3>3. Current \notin begun(kinds) /\ begun(kinds) \subseteq Call
      BY <2>7
    <3> HIDE DEF begun, after
    <3>4. IsFiniteSet(begun(kinds))
      BY <3>3, CallsFinite
    <3>5. Cardinality(begun(kinds) \cup {Current}) = Cardinality(begun(kinds)) + 1
      BY <3>3, <3>4, FS_AddElement
    <3> QED BY <2>6, <3>1, <3>2, <3>5
  <2>9. KindOf(saved, Current) \in Kind
    <3>1. /\ Current = <<saved.steps, pos>> /\ saved.steps \in 1 .. MaxSteps
          /\ pos \in 1 .. Len(saved.batch[saved.steps])
      BY <1>1, <2>3, CurrentCall DEF Busy, Acting
    <3>2. saved.batch[saved.steps] \in Seq(Kind)
      BY <2>4, <3>1, BatchLength
    <3>3. saved.batch[saved.steps][pos] \in Kind
      BY <3>1, <3>2
    <3> QED BY <3>1, <3>3 DEF KindOf
  <2>10. /\ ~(saved.tools >= MaxTools) /\ ~(saved.invalid >= MaxInvalid)
         /\ KindOf(saved, Current) = "recipe" => ~(saved.verify >= MaxVerify)
         /\ saved.tools \in Nat /\ saved.invalid \in Nat /\ saved.verify \in Nat
    BY <2>4 DEF Spent, Transcript
  <2>11. /\ Cardinality(begun(Kind)) <= MaxTools
         /\ Cardinality(begun({"recipe"})) <= MaxVerify
         /\ Cardinality(begun({"denied"})) <= MaxInvalid
    BY DEF CountInv, WithinBudget
  <2> HIDE DEF begun, after
  <2>12. Cardinality(after(Kind)) <= MaxTools
    BY <2>4, <2>8, <2>9, <2>10, LimitsAssumption DEF Tally
  <2>13. Cardinality(after({"recipe"})) <= MaxVerify
    <3>1. CASE KindOf(saved, Current) = "recipe"
      BY <2>4, <2>8, <2>10, <3>1, LimitsAssumption DEF Tally
    <3>2. CASE KindOf(saved, Current) # "recipe"
      BY <2>8, <2>11, <3>2
    <3> QED BY <3>1, <3>2
  <2>14. Cardinality(after({"denied"})) <= MaxInvalid
    <3>1. CASE KindOf(saved, Current) = "denied"
      BY <2>4, <2>8, <2>10, <3>1, LimitsAssumption DEF Tally
    <3>2. CASE KindOf(saved, Current) # "denied"
      BY <2>8, <2>11, <3>2
    <3> QED BY <3>1, <3>2
  <2>15. WithinBudget'
    BY <1>3, <2>12, <2>13, <2>14 DEF WithinBudget, after
  <2> QED BY <1>1, <1>3, <2>1, <2>2, <2>15, CountWriting DEF Acting
<1> QED BY <1>2, <1>3 DEF Begin

LEMMA CountComplete == LoopInv /\ CountInv /\ Complete => CountInv'
<1> SUFFICES ASSUME LoopInv, CountInv, Complete PROVE CountInv'
  OBVIOUS
<1>1. pc = "ran"
  BY DEF Complete
<1>2. CASE Fault /\ Return(mem) /\ UNCHANGED journal
  <2>1. /\ UNCHANGED <<saved, journal>> /\ pc' = "stopping" /\ mem' = mem
        /\ Tally(mem) /\ SameCalls(mem)
    BY <1>1, <1>2 DEF Return, CountInv
  <2> QED BY <2>1, CountReturning
<1> DEFINE verdict == IF KindOf(mem, Current) = "denied" THEN "denied" ELSE "result"
<1>3. CASE /\ journal' = [journal EXCEPT ![Current].state = verdict,
                                         ![Current].after = tree]
           /\ pc' = "completed"
           /\ UNCHANGED <<saved, mem, faults>>
  <2> DEFINE x == [journal[Current] EXCEPT !.state = verdict, !.after = tree]
  <2>1. Current \in Call
    BY <1>1, CurrentCall DEF Busy, Acting, AllCalls
  <2>2. x \in Operation /\ x.state = verdict
    <3>1. journal[Current] \in Operation /\ tree \in Trees
      BY <2>1 DEF LoopInv, TypeInv
    <3> QED BY <3>1 DEF Operation
  <2>3. journal' = [journal EXCEPT ![Current] = x] /\ UNCHANGED pos
    BY <1>3, <2>1 DEF LoopInv, TypeInv, Complete
  <2>4. journal[Current].state = "begun"
    BY <1>1 DEF LoopInv, Control, Busy, Acting, InBatch
  <2>5. /\ x.state \in {"denied", "result"}
        /\ x.state = "denied" => KindOf(mem, Current) = "denied"
        /\ x.state = "result" => KindOf(mem, Current) # "denied"
    BY <2>2
  <2> HIDE DEF x, verdict
  <2>6. \A c \in Call : journal'[c].state # "none" <=> journal[c].state # "none"
    <3>1. /\ journal'[Current] = x
          /\ \A c \in Call : c # Current => journal'[c] = journal[c]
      BY <2>1, <2>3 DEF LoopInv, TypeInv
    <3> QED BY <2>4, <2>5, <3>1
  <2>7. WithinBudget'
    <3> DEFINE Begun(kinds) ==
                 {c \in Call : journal[c].state # "none" /\ KindOf(saved, c) \in kinds}
    <3>1. \A c : KindOf(saved', c) = KindOf(saved, c)
      BY <1>3
    <3>2. /\ Begun(Kind)' = Begun(Kind)
          /\ Begun({"recipe"})' = Begun({"recipe"})
          /\ Begun({"denied"})' = Begun({"denied"})
      BY <2>6, <3>1
    <3>3. /\ Cardinality(Begun(Kind)) <= MaxTools
          /\ Cardinality(Begun({"recipe"})) <= MaxVerify
          /\ Cardinality(Begun({"denied"})) <= MaxInvalid
      BY DEF CountInv, WithinBudget
    <3>4. /\ Cardinality(Begun(Kind)') <= MaxTools
          /\ Cardinality(Begun({"recipe"})') <= MaxVerify
          /\ Cardinality(Begun({"denied"})') <= MaxInvalid
      <4> HIDE DEF Begun
      <4> QED BY <3>2, <3>3
    <3> QED BY <3>4 DEF WithinBudget
  <2> QED BY <1>1, <1>3, <2>2, <2>3, <2>5, <2>7, CountWriting DEF Acting
<1> QED BY <1>2, <1>3 DEF Complete

LEMMA CountRecord == LoopInv /\ CountInv /\ Record => CountInv'
<1> SUFFICES ASSUME LoopInv, CountInv, Record PROVE CountInv'
  OBVIOUS
<1> DEFINE kind == KindOf(mem, Current)
           told == journal[Current].state
           last == pos = Len(mem.batch[mem.steps])
           t == [mem EXCEPT
                   !.answers = @ \cup {<<Current, told>>},
                   !.pending = ~last,
                   !.tools   = @ + 1,
                   !.verify  = IF kind = "recipe" THEN @ + 1 ELSE @,
                   !.invalid = IF kind = "denied" THEN @ + 1 ELSE @]
<1>1. /\ pc = "completed" /\ UNCHANGED journal /\ mem = saved /\ InBatch
      /\ told \in {"result", "denied"} /\ Tally(mem) /\ WellFormed(mem) /\ mem \in Transcript
  BY DEF Record, LoopInv, TypeInv, Control, Acting, Busy, InBatch, CountInv
<1>2. /\ mem.steps \in 1 .. MaxSteps /\ pos \in 1 .. Len(mem.batch[mem.steps])
      /\ Current = <<mem.steps, pos>> /\ Current \in AllCalls(mem)
      /\ Current \notin Completed(mem) /\ Current \in Call
  BY <1>1, CurrentCall DEF Busy, Acting, AllCalls
<1>3. kind \in Kind
  <2>1. mem.batch[mem.steps] \in Seq(Kind)
    BY <1>1, <1>2, BatchLength
  <2>2. mem.batch[mem.steps][pos] \in Kind
    BY <1>2, <2>1
  <2> QED BY <1>2, <2>2 DEF KindOf
<1>4. \A kinds : {c \in {Current} : journal[c].state # "none" /\ KindOf(mem, c) \in kinds}
               = IF kind \in kinds THEN {Current} ELSE {}
  BY <1>1
<1>5. Cardinality({Current}) = 1 /\ Cardinality({}) = 0
  BY FS_Singleton, FS_EmptySet
<1>6. <<Current, told>> \in Call \X Says
  BY <1>1, <1>2 DEF Says
<1> HIDE DEF kind, told, last
<1>7. ASSUME NEW u \in Transcript, u.batch = t.batch, u.answers = t.answers, u.tools = t.tools,
             u.verify = t.verify, u.invalid = t.invalid
      PROVE  Tally(u) /\ SameCalls(u)
  <2>1. /\ u.batch = mem.batch /\ u.answers = mem.answers \cup {<<Current, told>>}
        /\ u.tools = mem.tools + 1
        /\ u.verify = IF kind = "recipe" THEN mem.verify + 1 ELSE mem.verify
        /\ u.invalid = IF kind = "denied" THEN mem.invalid + 1 ELSE mem.invalid
        /\ mem.tools \in Nat /\ mem.verify \in Nat /\ mem.invalid \in Nat
    BY <1>1, <1>7 DEF Transcript
  <2>2. Completed(u) = Completed(mem) \cup {Current}
    <3>1. <<Current, told>>[1] = Current
      OBVIOUS
    <3> QED BY <2>1, <3>1 DEF Completed
  <2>3. Completed(mem) \subseteq Call
    BY <1>1 DEF WellFormed, Completed, AllCalls
  <2> DEFINE more(kinds) == More(mem, {Current}, kinds)
  <2>4. /\ Cardinality(more(Kind)) = 1
        /\ Cardinality(more({"recipe"})) = IF kind = "recipe" THEN 1 ELSE 0
        /\ Cardinality(more({"denied"})) = IF kind = "denied" THEN 1 ELSE 0
    BY <1>3, <1>4, <1>5 DEF More
  <2>5. /\ u.tools = mem.tools + Cardinality(more(Kind))
        /\ u.verify = mem.verify + Cardinality(more({"recipe"}))
        /\ u.invalid = mem.invalid + Cardinality(more({"denied"}))
    <3> HIDE DEF more
    <3> QED BY <2>1, <2>4
  <2>6. {Current} \subseteq Call /\ {Current} \cap Completed(mem) = {}
    BY <1>2
  <2>7. Tally(u)
    BY <1>1, <2>1, <2>2, <2>3, <2>5, <2>6, TallyMore
  <2>8. SameCalls(u)
    BY <1>1, <2>1 DEF SameCalls, KindOf
  <2> QED BY <2>7, <2>8
<1>8. t \in Transcript
  <2>1. mem.tools + 1 \in Nat /\ mem.verify + 1 \in Nat /\ mem.invalid + 1 \in Nat
    BY <1>1 DEF Transcript
  <2>2. (mem.answers \cup {<<Current, told>>}) \in SUBSET (Call \X Says)
    BY <1>1, <1>6 DEF Transcript
  <2>3. (~last) \in BOOLEAN
    BY DEF last
  <2>4. /\ (IF kind = "recipe" THEN mem.verify + 1 ELSE mem.verify) \in Nat
        /\ (IF kind = "denied" THEN mem.invalid + 1 ELSE mem.invalid) \in Nat
    BY <1>1, <2>1 DEF Transcript
  <2> DEFINE said == mem.answers \cup {<<Current, told>>}
             verified == IF kind = "recipe" THEN mem.verify + 1 ELSE mem.verify
             refused == IF kind = "denied" THEN mem.invalid + 1 ELSE mem.invalid
             more == mem.tools + 1
  <2>5. t = [mem EXCEPT !.answers = said, !.pending = ~last, !.tools = more,
                        !.verify = verified, !.invalid = refused]
    BY <1>1 DEF Transcript
  <2>6. said \in SUBSET (Call \X Says) /\ verified \in Nat /\ refused \in Nat /\ more \in Nat
    BY <2>1, <2>2, <2>4
  <2> HIDE DEF said, verified, refused, more, t
  <2> QED BY <1>1, <2>3, <2>5, <2>6 DEF Transcript
<1>9. CASE Finish(t, "done")
  <2> DEFINE u == [t EXCEPT !.outcome = "done"]
  <2>0. Save(u, "idle")
    BY <1>9 DEF Finish
  <2> HIDE DEF t
  <2>1. /\ u \in Transcript /\ u.batch = t.batch /\ u.answers = t.answers
        /\ u.tools = t.tools /\ u.verify = t.verify /\ u.invalid = t.invalid
    BY <1>8 DEF Transcript
  <2> HIDE DEF u
  <2>2. Tally(u) /\ SameCalls(u)
    BY <1>7, <2>1
  <2> QED BY <1>1, <2>0, <2>1, <2>2, CountSaving
<1> HIDE DEF t
<1>10. ASSUME NEW next \in {"call", "loop", "stuck"}, Save(t, next)
       PROVE  CountInv'
  BY <1>1, <1>7, <1>8, <1>10, CountSaving
<1> QED BY <1>9, <1>10 DEF Record, t, kind, told, last

LEMMA CountReconcile == LoopInv /\ CountInv /\ Reconcile => CountInv'
<1> SUFFICES ASSUME LoopInv, CountInv, Reconcile PROVE CountInv'
  OBVIOUS
<1>1. /\ pc = "reconcile" /\ UNCHANGED journal /\ mem = saved /\ saved.pending
      /\ saved \in Transcript /\ WellFormed(saved) /\ Tally(saved) /\ SameCalls(saved)
      /\ journal \in [Call -> Operation] /\ Journalled /\ Verdicts
  BY DEF Reconcile, LoopInv, Control, TypeInv, CountInv, SameCalls
<1>2. CASE Return(mem)
  BY <1>1, <1>2, CountReturning DEF Return
<1> DEFINE s   == saved.steps
           n   == Len(saved.batch[s])
           K   == Unanswered(saved)
           rec == Recovered(saved)
           new == {<<s, k>> : k \in K}
           denied == {k \in rec : Match(saved, k).state = "denied"}
           recipe == {k \in rec : saved.batch[s][k] = "recipe"}
           t   == Reconciled(saved)
<1>3. /\ LastBatch(saved) = s /\ s \in 1 .. MaxSteps /\ n \in 1 .. MaxCalls
      /\ K = {k \in 1 .. n : <<s, k>> \notin Completed(saved)}
      /\ \A k \in 1 .. n : Match(saved, k) = journal[<<s, k>>] /\ <<s, k>> \in Call
  BY <1>1, PendingBatch
<1>4. rec = {k \in K : journal[<<s, k>>].state # "none"}
  BY <1>3 DEF Recovered
<1>5. /\ t.batch = saved.batch
      /\ t.tools = saved.tools + Cardinality(rec)
      /\ t.invalid = saved.invalid + Cardinality(denied)
      /\ t.verify = saved.verify + Cardinality(recipe)
      /\ t.answers = saved.answers \cup
            {<<<<s, k>>, IF k \in rec THEN Match(saved, k).state ELSE "skipped">> : k \in K}
  BY <1>1, <1>3 DEF Reconciled, Transcript
<1>6. Completed(t) = Completed(saved) \cup new
  <2> HIDE DEF t, K, rec
  <2> DEFINE told == {<<<<s, k>>, IF k \in rec THEN Match(saved, k).state ELSE "skipped">> : k \in K}
  <2>1. {a[1] : a \in told} = new
    <3>1. ASSUME NEW k \in K, NEW x PROVE <<<<s, k>>, x>>[1] = <<s, k>>
      OBVIOUS
    <3>2. {a[1] : a \in told} \subseteq new
      BY <3>1
    <3>3. ASSUME NEW k \in K PROVE <<s, k>> \in {a[1] : a \in told}
      BY <3>1
    <3> QED BY <3>2, <3>3
  <2> HIDE DEF told, new
  <2>2. t.answers = saved.answers \cup told
    BY <1>5 DEF told
  <2> QED BY <2>1, <2>2 DEF Completed
<1>7. /\ K \subseteq 1 .. n /\ K \subseteq 1 .. MaxCalls /\ rec \subseteq K
      /\ new \subseteq Call /\ new \cap Completed(saved) = {}
  <2>1. 1 .. n \subseteq 1 .. MaxCalls
    BY <1>3, LimitsAssumption
  <2> QED BY <1>3, <1>4, <2>1
<1>8. ASSUME NEW k \in K
      PROVE  /\ KindOf(saved, <<s, k>>) = saved.batch[s][k]
             /\ saved.batch[s][k] \in Kind
  <2>1. saved.batch[s] \in Seq(Kind) /\ k \in 1 .. n
    BY <1>1, <1>3, <1>7, BatchLength
  <2> QED BY <2>1 DEF KindOf
<1> DEFINE more(kinds) == More(saved, new, kinds)
<1>9. ASSUME NEW kinds
      PROVE  more(kinds) = {<<s, k>> : k \in {j \in rec : saved.batch[s][j] \in kinds}}
  BY <1>4, <1>8 DEF More
<1>10. ASSUME NEW kinds
       PROVE  Cardinality(more(kinds)) = Cardinality({j \in rec : saved.batch[s][j] \in kinds})
  <2> DEFINE P == {j \in rec : saved.batch[s][j] \in kinds}
  <2>1. P \subseteq 1 .. MaxCalls
    BY <1>7
  <2>2. more(kinds) = {<<s, k>> : k \in P}
    BY <1>9
  <2> HIDE DEF more, P, rec, s
  <2>3. Cardinality({<<s, k>> : k \in P}) = Cardinality(P)
    BY <1>3, <2>1, PlacesOfCalls
  <2>4. Cardinality(more(kinds)) = Cardinality(P)
    BY <2>2, <2>3
  <2> QED BY <2>4 DEF P
<1>11. CASE Reconcilable(saved) /\ \E next \in {"open", "idle"} : Save(t, next)
  <2>1. {j \in rec : saved.batch[s][j] \in Kind} = rec
    BY <1>7, <1>8
  <2>2. {j \in rec : saved.batch[s][j] \in {"recipe"}} = recipe
    OBVIOUS
  <2>3. {j \in rec : saved.batch[s][j] \in {"denied"}} = denied
    <3> SUFFICES ASSUME NEW k \in rec
                 PROVE  Match(saved, k).state = "denied" <=> saved.batch[s][k] = "denied"
      OBVIOUS
    <3>1. /\ k \in 1 .. n /\ k \in K /\ <<s, k>> \in Call
          /\ Match(saved, k) = journal[<<s, k>>]
      BY <1>3, <1>7
    <3>2. Match(saved, k).state # "begun" /\ journal[<<s, k>>].state # "none"
      BY <1>4, <1>11 DEF Reconcilable
    <3>3. Match(saved, k).state \in {"none", "begun", "result", "denied"}
      BY <1>1, <3>1 DEF Operation
    <3> QED BY <1>1, <1>8, <3>1, <3>2, <3>3 DEF Verdicts
  <2>4. Tally(t)
    <3>1. /\ t.tools = saved.tools + Cardinality(more(Kind))
          /\ t.verify = saved.verify + Cardinality(more({"recipe"}))
          /\ t.invalid = saved.invalid + Cardinality(more({"denied"}))
      <4> HIDE DEF more, t, rec, recipe, denied
      <4>1. /\ Cardinality(more(Kind)) = Cardinality(rec)
            /\ Cardinality(more({"recipe"})) = Cardinality(recipe)
            /\ Cardinality(more({"denied"})) = Cardinality(denied)
        BY <1>10, <2>1, <2>2, <2>3
      <4> QED BY <1>5, <4>1
    <3>2. Completed(saved) \subseteq Call
      BY <1>1 DEF WellFormed, Completed, AllCalls
    <3> HIDE DEF t, new
    <3> QED BY <1>1, <1>5, <1>6, <1>7, <3>1, <3>2, TallyMore
  <2>5. SameCalls(t)
    BY <1>5 DEF SameCalls, KindOf
  <2>6. t \in Transcript
    BY <1>1, <1>11, ReconciledExtends DEF LoopInv, Control, Extends
  <2> HIDE DEF t
  <2> QED BY <1>1, <1>11, <2>4, <2>5, <2>6, CountSaving
<1> QED BY <1>1, <1>2, <1>11 DEF Reconcile

LEMMA CountStep == LoopInv /\ CountInv /\ [Next]_vars => CountInv'
<1> SUFFICES ASSUME LoopInv, CountInv, [Next]_vars PROVE CountInv'
  OBVIOUS
<1>1. CASE Execute
  <2>1. /\ UNCHANGED <<saved, journal, mem>> /\ pc' = "ran"
        /\ Tally(mem) /\ SameCalls(mem)
    BY <1>1 DEF Execute, CountInv
  <2> QED BY <2>1, CountReturning
<1>2. CASE Stop
  <2>1. /\ UNCHANGED journal /\ saved' = mem /\ pc' = "idle"
        /\ Tally(mem) /\ SameCalls(mem)
    BY <1>2 DEF Stop, CountInv
  <2>2. WithinBudget' /\ Verdicts'
    BY <2>1, BudgetKept
  <2> QED BY <2>1, <2>2 DEF CountInv, Tally, Taken
<1>3. CASE Crash
  BY <1>3, CountReturning DEF Crash
<1>4. CASE Drift \/ UNCHANGED vars
  <2>1. UNCHANGED <<saved, journal, mem, pos, pc>>
    BY <1>4 DEF Drift, vars
  <2>2. WithinBudget' /\ Verdicts' /\ Tally(saved)' /\ Tally(mem) = Tally(mem)'
        /\ SameCalls(mem) = SameCalls(mem)'
    BY <2>1 DEF CountInv, WithinBudget, Verdicts, Tally, Taken, SameCalls
  <2>3. Spent(mem, KindOf(mem, Current))' = Spent(mem, KindOf(mem, Current))
    BY <2>1 DEF Spent, Current
  <2> QED BY <2>1, <2>2, <2>3 DEF CountInv
<1> QED BY <1>1, <1>2, <1>3, <1>4, CountOutside, CountChat, CountSkip, CountIntend, CountBegin,
           CountComplete, CountRecord, CountReconcile DEF Next, Step

\* The budgets of the EDIT phase bound what is begun over the whole transcript,
\* for every limit: what reconcile restores after a crash counts as if Step had
\* recorded it, so a crash buys no further call.
THEOREM BudgetsHold == Spec => []WithinBudget
<1>1. Init => CountInv
  <2> SUFFICES ASSUME Init PROVE CountInv
    OBVIOUS
  <2>1. saved = EmptyTranscript /\ pc = "idle" /\ \A c \in Call : journal[c].state = "none"
    BY DEF Init, NoOperation
  <2>2. /\ saved.answers = {} /\ saved.tools = 0 /\ saved.verify = 0 /\ saved.invalid = 0
    BY <2>1 DEF EmptyTranscript
  <2>3. Cardinality({}) = 0
    BY FS_EmptySet
  <2>4. \A kinds : Taken(saved, kinds) = {}
    BY <2>2 DEF Taken, Completed
  <2>5. Tally(saved)
    BY <2>2, <2>3, <2>4 DEF Tally
  <2> DEFINE begun(kinds) == {c \in Call : journal[c].state # "none"
                                           /\ KindOf(saved, c) \in kinds}
  <2>6. \A kinds : begun(kinds) = {}
    BY <2>1
  <2>7. WithinBudget
    <3> HIDE DEF begun
    <3>1. /\ Cardinality(begun(Kind)) <= MaxTools
          /\ Cardinality(begun({"recipe"})) <= MaxVerify
          /\ Cardinality(begun({"denied"})) <= MaxInvalid
      BY <2>3, <2>6, LimitsAssumption
    <3> QED BY <3>1 DEF WithinBudget, begun
  <2> QED BY <2>1, <2>5, <2>7 DEF CountInv, Verdicts
<1>2. CountInv => WithinBudget
  BY DEF CountInv
<1> QED BY <1>1, <1>2, CountStep, LoopInvariant, PTL DEF Spec

-----------------------------------------------------------------------------
(* Why an attempt is refused *)

\* Step would go on from the transcript t, or has a cause not to.
Resumes(t) ==
    t.outcome = "open" =>
        \/ Uncertain
        \/ t.cand = None
        \/ IF t.pending THEN Reconcilable(t) ELSE t.cand = tree

\* With nobody else in the worktree, the manifest of the transcript and the
\* operation of the call being taken follow the worktree.
CauseInv ==
    drifts = 0 =>
        /\ Resumes(saved)
        /\ pc = "stopping" => Resumes(mem)
        /\ pc \in {"loop", "stuck", "call", "exec"} => saved.cand = tree /\ mem.cand = tree
        /\ pc \in {"begun", "ran", "completed"} => journal[Current].before = saved.cand
        /\ pc = "completed" => journal[Current].after = tree

\* A transcript without begun calls that lack an answer is resumed where it
\* stands.
LEMMA NothingRecovered ==
    ASSUME NEW t \in Transcript, Recovered(t) = {}, t.cand = tree
    PROVE  Reconcilable(t)
BY DEF Reconcilable, Reached

\* The manifest does not tell which calls are recovered.
LEMMA RecoveredStamped ==
    ASSUME NEW t \in Transcript, NEW m
    PROVE  Recovered([t EXCEPT !.cand = m]) = Recovered(t)
<1> DEFINE u == [t EXCEPT !.cand = m]
<1>1. u.batch = t.batch /\ u.answers = t.answers /\ u.steps = t.steps
  BY DEF Transcript
<1> HIDE DEF u
<1>2. LastBatch(u) = LastBatch(t) /\ Completed(u) = Completed(t) /\ \A k : Match(u, k) = Match(t, k)
  BY <1>1 DEF LastBatch, Completed, Match
<1>3. Recovered(u) = Recovered(t)
  BY <1>1, <1>2 DEF Recovered, Unanswered
<1> QED BY <1>3 DEF u

\* What a write leaves behind, whether it succeeds or fails, can be resumed.
LEMMA CauseSaving ==
    ASSUME LoopInv, CauseInv, NEW STATE t, t \in Transcript, t.pending => Recovered(t) = {},
           NEW STATE next, next \notin {"stopping", "begun", "ran", "completed"},
           Save(t, next), UNCHANGED <<journal, tree, drifts>>
    PROVE  CauseInv'
<1> SUFFICES ASSUME drifts = 0 PROVE CauseInv'
  BY DEF CauseInv
<1>1. ASSUME NEW m \in {tree, None}
      PROVE  LET u == [t EXCEPT !.cand = m]
             IN  u.cand = None \/ IF u.pending THEN Reconcilable(u) ELSE u.cand = tree
  <2> DEFINE u == [t EXCEPT !.cand = m]
  <2>1. m \in Trees \cup {None}
    BY DEF LoopInv, TypeInv
  <2>2. u \in Transcript /\ u.pending = t.pending /\ u.cand = m
    BY <2>1 DEF Transcript
  <2>3. Recovered(u) = Recovered(t)
    BY RecoveredStamped
  <2> HIDE DEF u
  <2>4. u.cand = None \/ IF u.pending THEN Reconcilable(u) ELSE u.cand = tree
    BY <2>2, <2>3, NothingRecovered
  <2> QED BY <2>4 DEF u
<1>2. CASE /\ mem' = [t EXCEPT !.cand = tree]
           /\ saved' = mem'
           /\ pc' = next
  <2>1. saved'.cand = tree /\ mem'.cand = tree
    BY <1>2 DEF Transcript
  <2>2. saved'.cand = None \/ IF saved'.pending THEN Reconcilable(saved') ELSE saved'.cand = tree
    BY <1>1, <1>2
  <2>3. Reconcilable(saved') = Reconcilable(saved)'
    BY DEF Reconcilable, Recovered, Reached, Match, Unanswered
  <2>4. Resumes(saved)'
    BY <2>2, <2>3 DEF Resumes
  <2> QED BY <1>2, <2>1, <2>4 DEF CauseInv
<1>3. CASE /\ \E m \in {tree, None} : mem' = [t EXCEPT !.cand = m]
           /\ pc' = "stopping"
           /\ UNCHANGED saved
  <2>1. mem'.cand = None \/ IF mem'.pending THEN Reconcilable(mem') ELSE mem'.cand = tree
    BY <1>1, <1>3
  <2>2. /\ Reconcilable(mem') = Reconcilable(mem)'
        /\ Reconcilable(saved)' = Reconcilable(saved)
        /\ Uncertain' = Uncertain
    BY <1>3 DEF Reconcilable, Recovered, Reached, Match, Unanswered, Uncertain
  <2>3. Resumes(mem)' /\ Resumes(saved)'
    BY <1>3, <2>1, <2>2 DEF CauseInv, Resumes
  <2> QED BY <1>3, <2>3 DEF CauseInv
<1> QED BY <1>2, <1>3 DEF Save

\* A step that writes neither the transcript nor the journal.
LEMMA CauseReturning ==
    ASSUME CauseInv, UNCHANGED <<saved, journal, tree, drifts>>,
           pc' \notin {"loop", "stuck", "call", "exec", "begun", "ran", "completed"},
           drifts = 0 /\ pc' = "stopping" => Resumes(mem')
    PROVE  CauseInv'
<1>1. /\ Reconcilable(mem') = Reconcilable(mem)'
      /\ Reconcilable(saved)' = Reconcilable(saved)
      /\ Uncertain' = Uncertain
  BY DEF Reconcilable, Recovered, Reached, Match, Unanswered, Uncertain
<1>2. Resumes(saved)' = Resumes(saved) /\ Resumes(mem)' = Resumes(mem')
  BY <1>1 DEF Resumes
<1> QED BY <1>2 DEF CauseInv

\* While a call is taken, it is the only one that may be recovered.
LEMMA RecoveredCall ==
    ASSUME LoopInv, pc \in Busy, NEW t, t.batch = mem.batch, t.steps = mem.steps,
           Completed(mem) \subseteq Completed(t)
    PROVE  /\ journal[Current].state = "none" \/ Current \in Completed(t) => Recovered(t) = {}
           /\ journal[Current].state # "none" /\ Current \notin Completed(t) => Recovered(t) = {pos}
           /\ Match(t, pos) = journal[Current]
<1> DEFINE u == [mem EXCEPT !.pending = TRUE]
<1>1. u \in Transcript /\ WellFormed(u) /\ mem \in Transcript
  BY Live DEF Extends
<1>2. u.pending /\ u.batch = t.batch /\ u.steps = t.steps
  BY <1>1 DEF Transcript
<1> HIDE DEF u
<1>3. LastBatch(u) = u.steps
  BY <1>1, <1>2, PendingBatch
<1>4. LastBatch(t) = mem.steps
  BY <1>2, <1>3 DEF LastBatch
<1>5. /\ Len(mem.batch[mem.steps]) \in 1 .. MaxCalls /\ pos \in 1 .. Len(mem.batch[mem.steps])
      /\ Current = <<mem.steps, pos>> /\ InBatch
  BY CurrentCall DEF LoopInv, Control
<1>6. \A k \in 1 .. Len(mem.batch[mem.steps]) :
         /\ k < pos => <<mem.steps, k>> \in Completed(t)
         /\ k > pos => journal[<<mem.steps, k>>].state = "none"
  BY <1>5 DEF InBatch
<1>7. \A k \in 1 .. Len(mem.batch[mem.steps]) : k < pos \/ k = pos \/ k > pos
  BY <1>5, LimitsAssumption
<1>8. /\ Unanswered(t) = {k \in 1 .. Len(mem.batch[mem.steps]) : <<mem.steps, k>> \notin Completed(t)}
      /\ \A k : Match(t, k) = journal[<<mem.steps, k>>]
  BY <1>4 DEF Unanswered, Match
<1>9. Recovered(t) = {k \in Unanswered(t) : Match(t, k).state # "none"}
  BY DEF Recovered
<1> QED BY <1>5, <1>6, <1>7, <1>8, <1>9

LEMMA CauseOutside ==
    LoopInv /\ CauseInv /\ (Enter \/ Open \/ Conclude \/ Abandon \/ Stuck \/ Chat \/ Reconcile)
        => CauseInv'
<1> SUFFICES ASSUME LoopInv, CauseInv, drifts = 0,
                    Enter \/ Open \/ Conclude \/ Abandon \/ Stuck \/ Chat \/ Reconcile
             PROVE  CauseInv'
  BY DEF Enter, Open, Conclude, Abandon, Stuck, Chat, Reconcile, CauseInv
<1>1. mem \in Transcript /\ saved \in Transcript
  BY DEF LoopInv, TypeInv
<1>2. CASE Enter
  BY <1>2, CauseReturning DEF Enter
<1>3. CASE Open
  <2> DEFINE t == [mem EXCEPT !.seeded = TRUE]
  <2>1. ~mem.pending
    BY <1>3 DEF Open, LoopInv, Control, Waiting
  <2>2. t \in Transcript /\ ~t.pending
    BY <1>1, <2>1 DEF Transcript
  <2>3. Save(t, "loop") /\ UNCHANGED <<journal, tree, drifts>>
    BY <1>3 DEF Open
  <2> HIDE DEF t
  <2> QED BY <2>2, <2>3, CauseSaving
<1>4. ASSUME pc \in {"loop", "stuck"}, NEW o \in {"stopped", "exhausted"},
             UNCHANGED <<journal, tree, drifts>>, Save([mem EXCEPT !.outcome = o], "idle")
      PROVE  CauseInv'
  <2> DEFINE t == [mem EXCEPT !.outcome = o]
  <2>1. ~mem.pending
    BY <1>4 DEF LoopInv, Control, Waiting
  <2>2. t \in Transcript /\ ~t.pending
    BY <1>1, <2>1 DEF Transcript
  <2>3. Save(t, "idle")
    BY <1>4
  <2> HIDE DEF t
  <2> QED BY <1>4, <2>2, <2>3, CauseSaving
<1>5. ASSUME pc = "loop", mem.steps < MaxSteps
      PROVE  Asked \in Transcript /\ ~Asked.pending /\ Asked.cand = mem.cand
  <2>1. ~mem.pending
    BY <1>5 DEF LoopInv, Control, Waiting
  <2>2. mem.steps + 1 \in 0 .. MaxSteps
    BY <1>1, <1>5, LimitsAssumption DEF Transcript
  <2> QED BY <1>1, <2>1, <2>2 DEF Transcript, Asked
<1>6. CASE Conclude
  <2>1. pc = "loop" /\ UNCHANGED <<journal, tree, drifts>>
    BY <1>6 DEF Conclude
  <2>2. ASSUME mem.steps < MaxSteps, Save([Asked EXCEPT !.outcome = "stopped"], "idle")
        PROVE  CauseInv'
    <3> DEFINE t == [Asked EXCEPT !.outcome = "stopped"]
    <3>1. t \in Transcript /\ ~t.pending
      BY <1>5, <2>1, <2>2 DEF Transcript
    <3>2. Save(t, "idle")
      BY <2>2
    <3> HIDE DEF t
    <3> QED BY <2>1, <3>1, <3>2, CauseSaving
  <2> QED BY <1>4, <1>6, <2>1, <2>2 DEF Conclude, Finish
<1>7. CASE Stuck
  BY <1>4, <1>7 DEF Stuck, Finish
<1>8. CASE Abandon
  <2>1. /\ pc = "loop" /\ mem.steps < MaxSteps /\ UNCHANGED <<saved, journal, tree, drifts>>
        /\ pc' = "stopping" /\ mem' \in {mem, Asked}
    BY <1>8 DEF Abandon, Return
  <2>2. ~mem.pending /\ mem.cand = tree
    BY <2>1 DEF LoopInv, Control, Waiting, CauseInv
  <2>3. Resumes(mem')
    BY <1>5, <2>1, <2>2 DEF Resumes
  <2> QED BY <2>1, <2>3, CauseReturning
<1>9. CASE Chat
  <2>1. /\ UNCHANGED <<saved, journal, tree, drifts>> /\ pc' = "call" /\ pc = "loop"
        /\ mem.steps < MaxSteps
    BY <1>9 DEF Chat
  <2>2. PICK b \in Batches : mem' = [Asked EXCEPT !.batch[mem.steps + 1] = b]
    BY <1>9 DEF Chat
  <2>3. mem'.cand = mem.cand
    BY <1>5, <2>1, <2>2 DEF Transcript
  <2>4. mem.cand = tree /\ saved.cand = tree /\ ~saved.pending
    BY <2>1 DEF CauseInv, LoopInv, Control, Waiting
  <2> QED BY <2>1, <2>3, <2>4 DEF CauseInv, Resumes
<1>10. CASE Reconcile
  <2>1. /\ pc = "reconcile" /\ UNCHANGED <<journal, tree, drifts>> /\ mem = saved
        /\ saved.pending /\ saved.outcome = "open"
    BY <1>10 DEF Reconcile, LoopInv, Control
  <2>2. CASE Return(mem)
    <3>1. UNCHANGED saved /\ pc' = "stopping" /\ mem' = saved
      BY <2>1, <2>2 DEF Return
    <3>2. Resumes(saved)
      BY DEF CauseInv
    <3> QED BY <2>1, <3>1, <3>2, CauseReturning
  <2> DEFINE t == Reconciled(mem)
  <2>3. CASE Reconcilable(mem) /\ \E next \in {"open", "idle"} : Save(t, next)
    <3>1. t \in Transcript /\ ~t.pending
      BY <2>1, <2>3, ReconciledExtends DEF Extends
    <3> HIDE DEF t
    <3> QED BY <2>1, <2>3, <3>1, CauseSaving
  <2> QED BY <1>10, <2>2, <2>3 DEF Reconcile
<1> QED BY <1>2, <1>3, <1>6, <1>7, <1>8, <1>9, <1>10

LEMMA CauseInside ==
    LoopInv /\ CauseInv /\ (Skip \/ Intend \/ Record) => CauseInv'
<1> SUFFICES ASSUME LoopInv, CauseInv, Skip \/ Intend \/ Record PROVE CauseInv'
  OBVIOUS
<1>1. mem \in Transcript /\ UNCHANGED <<journal, tree, drifts>> /\ pc \in Busy
  BY DEF LoopInv, TypeInv, Skip, Intend, Record, Busy, Acting
<1> DEFINE n == Len(mem.batch[mem.steps])
<1>2. /\ n \in 1 .. MaxCalls /\ pos \in 1 .. n /\ Current \in Call
      /\ \A k \in 1 .. n : <<mem.steps, k>> \in Call
  BY <1>1, CurrentCall DEF AllCalls
<1>3. CASE Skip
  <2> DEFINE skipped == {<<<<mem.steps, k>>, "skipped">> : k \in pos .. n}
             t == [mem EXCEPT !.answers = @ \cup skipped,
                              !.pending = FALSE, !.outcome = "exhausted"]
  <2>1. Save(t, "idle")
    BY <1>1, <1>3 DEF Skip, Finish, Transcript
  <2>2. pos .. n \subseteq 1 .. n
    BY <1>2, LimitsAssumption
  <2>3. skipped \subseteq Call \X Says
    BY <1>2, <2>2 DEF Says
  <2> HIDE DEF skipped
  <2>4. t \in Transcript /\ ~t.pending
    BY <1>1, <2>3 DEF Transcript
  <2> HIDE DEF t
  <2> QED BY <1>1, <2>1, <2>4, CauseSaving
<1>4. CASE Intend
  <2> DEFINE t == [mem EXCEPT !.pending = TRUE]
  <2>1. pc = "call" /\ Save(t, "exec")
    BY <1>4 DEF Intend
  <2>2. /\ t \in Transcript /\ t.batch = mem.batch /\ t.steps = mem.steps
        /\ t.answers = mem.answers
    BY <1>1 DEF Transcript
  <2> HIDE DEF t
  <2>3. Completed(mem) \subseteq Completed(t) /\ journal[Current].state = "none"
    BY <2>1, <2>2 DEF Completed, LoopInv, Control, Busy, InBatch
  <2>4. Recovered(t) = {}
    BY <1>1, <2>2, <2>3, RecoveredCall
  <2> QED BY <1>1, <2>1, <2>2, <2>4, CauseSaving
<1>5. CASE Record
  <2> DEFINE kind == KindOf(mem, Current)
             told == journal[Current].state
             last == pos = n
             t == [mem EXCEPT
                     !.answers = @ \cup {<<Current, told>>},
                     !.pending = ~last,
                     !.tools   = @ + 1,
                     !.verify  = IF kind = "recipe" THEN @ + 1 ELSE @,
                     !.invalid = IF kind = "denied" THEN @ + 1 ELSE @]
  <2>1. told \in {"result", "denied"}
    BY <1>5 DEF Record, LoopInv, Control, Busy, Acting, InBatch
  <2>2. <<Current, told>> \in Call \X Says
    BY <1>2, <2>1 DEF Says
  <2>3. Finish(t, "done") \/ \E next \in {"call", "loop", "stuck"} : Save(t, next)
    BY <1>5 DEF Record
  <2> HIDE DEF kind, told, last
  <2>4. /\ t \in Transcript /\ t.batch = mem.batch /\ t.steps = mem.steps
        /\ t.answers = mem.answers \cup {<<Current, told>>}
    <3>1. mem.tools + 1 \in Nat /\ mem.verify + 1 \in Nat /\ mem.invalid + 1 \in Nat
      BY <1>1 DEF Transcript
    <3> QED BY <1>1, <2>2, <3>1 DEF Transcript
  <2> HIDE DEF t
  <2>5. ASSUME NEW u, u.batch = t.batch, u.steps = t.steps, u.answers = t.answers
        PROVE  Recovered(u) = {}
    <3>1. <<Current, told>>[1] = Current
      OBVIOUS
    <3>2. Completed(mem) \subseteq Completed(u) /\ Current \in Completed(u)
      BY <2>4, <2>5, <3>1 DEF Completed
    <3> QED BY <1>1, <2>4, <2>5, <3>2, RecoveredCall
  <2>6. CASE Finish(t, "done")
    <3> DEFINE u == [t EXCEPT !.outcome = "done"]
    <3>1. u \in Transcript /\ u.batch = t.batch /\ u.steps = t.steps /\ u.answers = t.answers
      BY <2>4 DEF Transcript
    <3>2. Save(u, "idle")
      BY <2>6 DEF Finish
    <3> HIDE DEF u
    <3>3. Recovered(u) = {}
      BY <2>5, <3>1
    <3> QED BY <1>1, <3>1, <3>2, <3>3, CauseSaving
  <2>7. ASSUME NEW next \in {"call", "loop", "stuck"}, Save(t, next) PROVE CauseInv'
    <3>1. Recovered(t) = {}
      BY <2>5
    <3> QED BY <1>1, <2>4, <2>7, <3>1, CauseSaving
  <2> QED BY <2>3, <2>6, <2>7
<1> QED BY <1>3, <1>4, <1>5

\* The operation of the current call explains the refusal while it has no
\* outcome, and leads from the saved worktree to this one when it has.
LEMMA CauseActing ==
    LoopInv /\ CauseInv /\ (Begin \/ Execute \/ Complete) => CauseInv'
<1> SUFFICES ASSUME LoopInv, CauseInv, drifts = 0, Begin \/ Execute \/ Complete
             PROVE  CauseInv'
  BY DEF Begin, Execute, Complete, CauseInv
<1>1. /\ mem = saved /\ saved.pending /\ saved.outcome = "open" /\ pc \in Acting
      /\ pc \in Busy /\ InBatch /\ saved \in Transcript /\ journal \in [Call -> Operation]
      /\ Resumes(saved)
  BY DEF Begin, Execute, Complete, LoopInv, TypeInv, Control, Acting, Busy, CauseInv
<1>2. /\ Current \in AllCalls(saved) /\ Current \in Call /\ Current \notin Completed(saved)
      /\ Current = <<saved.steps, pos>> /\ pos \in 1 .. MaxCalls
  BY <1>1, CurrentCall DEF AllCalls, LoopInv, TypeInv
<1>3. ASSUME Fault /\ Return(mem) /\ UNCHANGED <<journal, tree, drifts>> PROVE CauseInv'
  BY <1>1, <1>3, CauseReturning DEF Return
<1>4. CASE Begin
  <2>1. CASE /\ journal' = [journal EXCEPT ![Current] =
                               [state |-> "begun", before |-> tree, after |-> None]]
             /\ pc' = "begun"
             /\ UNCHANGED <<saved, mem, faults>>
    <3>1. UNCHANGED <<tree, pos, drifts>> /\ pc = "exec"
      BY <1>4 DEF Begin
    <3>2. Current' = Current /\ journal'[Current].state = "begun" /\ journal'[Current].before = tree
      BY <1>1, <1>2, <2>1, <3>1 DEF Current
    <3>3. Uncertain'
      BY <1>2, <2>1, <3>2 DEF Uncertain
    <3>4. saved.cand = tree
      BY <3>1 DEF CauseInv
    <3> QED BY <2>1, <3>1, <3>2, <3>3, <3>4 DEF CauseInv, Resumes
  <2> QED BY <1>3, <1>4, <2>1 DEF Begin
<1>5. CASE Execute
  <2>1. UNCHANGED <<saved, journal, mem, pos, drifts>> /\ pc = "begun" /\ pc' = "ran"
    BY <1>5 DEF Execute
  <2>2. Current' = Current /\ journal[Current].state = "begun"
    BY <1>1, <2>1 DEF Current, InBatch
  <2>3. Uncertain'
    BY <1>2, <2>1, <2>2 DEF Uncertain
  <2> QED BY <2>1, <2>2, <2>3 DEF CauseInv, Resumes
<1>6. CASE Complete
  <2> DEFINE verdict == IF KindOf(mem, Current) = "denied" THEN "denied" ELSE "result"
  <2>1. CASE /\ journal' = [journal EXCEPT ![Current].state = verdict,
                                           ![Current].after = tree]
             /\ pc' = "completed"
             /\ UNCHANGED <<saved, mem, faults>>
    <3>1. UNCHANGED <<tree, pos, drifts>> /\ pc = "ran"
      BY <1>6 DEF Complete
    <3>2. journal[Current] \in Operation
      BY <1>1, <1>2
    <3>3. /\ Current' = Current /\ journal'[Current].state \in {"denied", "result"}
          /\ journal'[Current].before = journal[Current].before
          /\ journal'[Current].after = tree
      BY <1>1, <1>2, <2>1, <3>1, <3>2 DEF Current, Operation
    <3> HIDE DEF verdict
    <3>4. journal[Current].before = saved.cand
      BY <3>1 DEF CauseInv
    <3>5. Recovered(saved) = {pos}
      <4>1. journal[Current].state # "none"
        BY <1>1, <3>1 DEF InBatch
      <4> QED BY <1>1, <1>2, <4>1, RecoveredCall
    <3>6. ASSUME NEW k \in Unanswered(saved)
          PROVE  /\ Match(saved, k)'.state # "none" <=> Match(saved, k).state # "none"
                 /\ Match(saved, k) = journal[<<saved.steps, k>>]
                 /\ Match(saved, k)' = journal'[<<saved.steps, k>>]
      <4>1. <<saved.steps, k>> \in Call
        BY <1>1, <3>6, PendingBatch DEF LoopInv
      <4>2. CASE <<saved.steps, k>> = Current
        BY <1>1, <2>1, <3>1, <3>3, <4>2 DEF Match, InBatch
      <4>3. CASE <<saved.steps, k>> # Current
        BY <1>1, <2>1, <4>1, <4>3 DEF Match
      <4> QED BY <4>2, <4>3
    <3>7. Recovered(saved)' = {pos}
      <4>1. Unanswered(saved)' = Unanswered(saved)
        BY <2>1 DEF Unanswered
      <4>2. Recovered(saved)' = {k \in Unanswered(saved) : Match(saved, k)'.state # "none"}
        BY <3>1, <4>1 DEF Recovered, Match
      <4> QED BY <3>5, <3>6, <4>2 DEF Recovered
    <3>8. Match(saved, pos)' = journal'[Current]
      BY <1>2, <3>1, <3>5, <3>6 DEF Recovered
    <3>9. {j \in {pos} : j < pos} = {} /\ {j \in {pos} : j < MaxCalls + 1} = {pos}
      BY <1>2, LimitsAssumption
    <3>10. Reached(saved, pos)' = saved.cand
      BY <2>1, <3>1, <3>7, <3>9 DEF Reached
    <3>11. Reached(saved, MaxCalls + 1)' = tree
      <4> DEFINE E == {j \in Recovered(saved)' : j < MaxCalls + 1}
                 x == CHOOSE j \in E : \A i \in E : i <= j
      <4>1. E = {pos}
        BY <3>7, <3>9
      <4>2. Reached(saved, MaxCalls + 1)' =
              IF E = {} THEN saved.cand ELSE journal'[<<saved.steps, x>>].after
        BY <2>1 DEF Reached, Match
      <4> HIDE DEF E
      <4>3. x \in E
        BY <1>2, <4>1, LimitsAssumption
      <4>4. x = pos
        BY <4>1, <4>3
      <4> HIDE DEF x
      <4> QED BY <1>2, <3>3, <4>1, <4>2, <4>4
    <3>12. Reconcilable(saved)'
      BY <2>1, <3>1, <3>3, <3>4, <3>7, <3>8, <3>10, <3>11 DEF Reconcilable
    <3> QED BY <1>1, <2>1, <3>1, <3>3, <3>4, <3>12 DEF CauseInv, Resumes
  <2> QED BY <1>3, <1>6, <2>1 DEF Complete
<1> QED BY <1>4, <1>5, <1>6

LEMMA CauseStep == LoopInv /\ CauseInv /\ [Next]_vars => CauseInv'
<1> SUFFICES ASSUME LoopInv, CauseInv, [Next]_vars PROVE CauseInv'
  OBVIOUS
<1>1. CASE Stop
  <2> SUFFICES ASSUME drifts = 0 PROVE CauseInv'
    BY <1>1 DEF Stop, CauseInv
  <2>1. UNCHANGED <<journal, tree, drifts>> /\ saved' = mem /\ pc' = "idle" /\ Resumes(mem)
    BY <1>1 DEF Stop, CauseInv
  <2>2. AllCalls(saved) \subseteq AllCalls(mem)
    BY <1>1 DEF Stop, LoopInv, Control, Extends
  <2>3. Uncertain => Uncertain'
    BY <2>1, <2>2 DEF Uncertain
  <2>4. Reconcilable(saved)' = Reconcilable(mem)
    BY <2>1 DEF Reconcilable, Recovered, Reached, Match, Unanswered
  <2>5. Resumes(saved)'
    BY <2>1, <2>3, <2>4 DEF Resumes
  <2> QED BY <2>1, <2>5 DEF CauseInv
<1>2. CASE Crash
  BY <1>2, CauseReturning DEF Crash
<1>3. CASE Drift
  BY <1>3 DEF Drift, CauseInv, LoopInv, TypeInv
<1>4. CASE UNCHANGED vars
  <2>1. UNCHANGED <<saved, journal, tree, mem, pos, pc, drifts>>
    BY <1>4 DEF vars
  <2>2. /\ Reconcilable(mem)' = Reconcilable(mem)
        /\ Reconcilable(saved)' = Reconcilable(saved)
        /\ Uncertain' = Uncertain
    BY <2>1 DEF Reconcilable, Recovered, Reached, Match, Unanswered, Uncertain
  <2>3. Resumes(mem)' = Resumes(mem) /\ Resumes(saved)' = Resumes(saved) /\ Current' = Current
    BY <2>1, <2>2 DEF Resumes, Current
  <2> QED BY <2>1, <2>3 DEF CauseInv
<1> QED BY <1>1, <1>2, <1>3, <1>4, CauseOutside, CauseInside, CauseActing DEF Next, Step

\* With nobody else in the worktree, Step refuses to go on with an interrupted
\* attempt only for an operation without an outcome or a manifest that could not
\* be read: the candidate chain reconcile checks is never broken by the loop's
\* own crashes, failed writes and retries.
THEOREM RefusalsHaveCause == Spec => []RefusedForCause
<1>1. Init => CauseInv
  BY DEF Init, EmptyTranscript, CauseInv, Resumes
<1>2. CauseInv => RefusedForCause
  BY DEF CauseInv, Resumes, RefusedForCause, Refused
<1> QED BY <1>1, <1>2, CauseStep, LoopInvariant, PTL DEF Spec
=============================================================================
