------------------------------ MODULE Supervise ------------------------------
(***************************************************************************)
(* Supervised tasks: an editor's agent edits the working tree, its own way *)
(* or through le_edit, and the tool server records what it is told, runs   *)
(* the verification and closes the task with a review.  Tool calls overlap *)
(* one another and the agent's edits, and the server may stop in any call. *)
(*                                                                         *)
(* The content of the working tree is a number.  What the checks say of it *)
(* is decided when they run (external).                                    *)
(***************************************************************************)
EXTENDS Naturals, Sequences, FiniteSets

CONSTANTS
    Tasks,       \* task ids
    Calls,       \* tool calls under way at once
    Paths,       \* the paths a call may name
    Links,       \* the ways symbolic links may lead: each path -> its file
    Guarded,     \* secrets, .git, supervisor metadata, generated, protected paths
    Scopes,      \* the write scopes a task may declare
    MaxContent,  \* bound on the contents of the tree
    MaxChecks,   \* bound on the verifications of a task, and on the reviews
    MaxAnswers   \* bound on its answers

VARIABLES
    tree,      \* the working tree
    links,     \* where its paths lead once symbolic links are resolved
    tasks,     \* the task rows
    checks,    \* task -> the verifications in its journal, oldest first
    answers,   \* task -> the decisions in its journal
    reviews,   \* the reviews in the journal
    call,      \* the calls under way
    edited     \* what le_edit wrote, under which task

suvars == <<tree, links, tasks, checks, answers, reviews, call, edited>>

NoCall == [pc |-> "idle"]

SuInit ==
    /\ tree = 0 /\ links \in Links
    /\ tasks = [t \in Tasks |-> [state |-> "none", scope |-> {}]]
    /\ checks = [t \in Tasks |-> <<>>]
    /\ answers = [t \in Tasks |-> 0]
    /\ reviews = {}
    /\ call = [c \in Calls |-> NoCall]
    /\ edited = {}

To(c, rec) == call' = [call EXCEPT ![c] = rec]

-----------------------------------------------------------------------------
(* Opening a task, and editing *)

\* taskStart: the row with its scope, before any work.
TaskStart(t, scope) ==
    /\ tasks[t].state = "none"
    /\ tasks' = [tasks EXCEPT ![t] = [state |-> "pending", scope |-> scope]]
    /\ UNCHANGED <<tree, links, checks, answers, reviews, call, edited>>

\* A faulty variant: the named path alone is judged.
MayWriteByName(t, f) == f \notin Guarded /\ f \in tasks[t].scope

\* Access.Check for a write: the path and its target are both judged.
MayWrite(t, f) ==
    \A name \in {f, links[f]} : name \notin Guarded /\ name \in tasks[t].scope

\* The agent's own edit, or the user's.
Edit(v) ==
    /\ tree # v
    /\ tree' = v
    /\ UNCHANGED <<links, tasks, checks, answers, reviews, call, edited>>

\* or a change of where a path leads.
Relink(l) ==
    /\ links # l
    /\ links' = l
    /\ UNCHANGED <<tree, tasks, checks, answers, reviews, call, edited>>

\* editFile: any task that exists, whatever its state; the path is judged, the text
\* is looked up in the file as it is read, and the path is resolved once more when
\* the whole file is written back.
EditRead(c, t, f) ==
    /\ call[c].pc = "idle" /\ tasks[t].state # "none"
    /\ MayWrite(t, f)
    /\ To(c, [pc |-> "edit", task |-> t, file |-> f, to |-> links[f]])
    /\ UNCHANGED <<tree, links, tasks, checks, answers, reviews, edited>>

EditWrite(c, v) ==
    LET to == links[call[c].file] IN
    /\ call[c].pc = "edit"
    /\ tree' = v
    /\ edited' = edited \cup {[task |-> call[c].task, to |-> to, moved |-> to # call[c].to]}
    /\ To(c, NoCall)
    /\ UNCHANGED <<links, tasks, checks, answers, reviews>>

-----------------------------------------------------------------------------
(* Verification and answers *)

\* verify: a run of its own over the tree as it is; the task id may be left out.
VerifyBegin(c, t) ==
    /\ call[c].pc = "idle" /\ tasks[t].state # "none"
    /\ To(c, [pc |-> "verify", task |-> t, seen |-> tree])
    /\ UNCHANGED <<tree, links, tasks, checks, answers, reviews, edited>>

\* RecordVerification, when the run has come to an end.
VerifyRecord(c, ok) ==
    LET t == call[c].task IN
    /\ call[c].pc = "verify" /\ Len(checks[t]) < MaxChecks
    /\ checks' = [checks EXCEPT ![t] = Append(@, [ok |-> ok, seen |-> call[c].seen])]
    /\ To(c, NoCall)
    /\ UNCHANGED <<tree, links, tasks, answers, reviews, edited>>

\* RecordAnswer.
Answer(t) ==
    /\ tasks[t].state # "none" /\ answers[t] < MaxAnswers
    /\ answers' = [answers EXCEPT ![t] = @ + 1]
    /\ UNCHANGED <<tree, links, tasks, checks, reviews, call, edited>>

-----------------------------------------------------------------------------
(* FinishTask *)

\* A faulty variant: some verification passed.
VerdictOfAny(log) ==
    IF \E k \in DOMAIN log : log[k].ok THEN "VERIFIED"
    ELSE IF log = <<>> THEN "UNVERIFIED" ELSE "NOT_VERIFIED"

\* LastVerification: the newest on record, or none.
Verdict(log) ==
    IF log = <<>> THEN "UNVERIFIED"
    ELSE IF log[Len(log)].ok THEN "VERIFIED" ELSE "NOT_VERIFIED"

\* The journal and the tree are read,
FinishRead(c, t) ==
    /\ call[c].pc = "idle" /\ tasks[t].state # "none"
    /\ To(c, [pc |-> "review", review |->
                [task |-> t, verdict |-> Verdict(checks[t]), upto |-> Len(checks[t]),
                 tree |-> tree]])
    /\ UNCHANGED <<tree, links, tasks, checks, answers, reviews, edited>>

\* the review is journalled,
FinishReview(c) ==
    /\ call[c].pc = "review" /\ Cardinality(reviews) < MaxChecks
    /\ reviews' = reviews \cup {call[c].review}
    /\ To(c, [call[c] EXCEPT !.pc = "state"])
    /\ UNCHANGED <<tree, links, tasks, checks, answers, edited>>

\* and the task is accepted or failed.
FinishState(c) ==
    /\ call[c].pc = "state"
    /\ tasks' = [tasks EXCEPT ![call[c].review.task].state =
                    IF call[c].review.verdict = "VERIFIED" THEN "accepted" ELSE "failed"]
    /\ To(c, NoCall)
    /\ UNCHANGED <<tree, links, checks, answers, reviews, edited>>

\* The client gives up, or the server stops: the rest of the call never happens.
Abandon(c) ==
    /\ call[c].pc # "idle"
    /\ To(c, NoCall)
    /\ UNCHANGED <<tree, links, tasks, checks, answers, reviews, edited>>

SuNext ==
    \/ \E t \in Tasks : Answer(t) \/ \E scope \in Scopes : TaskStart(t, scope)
    \/ \E v \in 0 .. MaxContent : Edit(v)
    \/ \E l \in Links : Relink(l)
    \/ \E c \in Calls :
          \/ \E t \in Tasks : VerifyBegin(c, t) \/ FinishRead(c, t)
          \/ \E t \in Tasks, f \in Paths : EditRead(c, t, f)
          \/ \E v \in 0 .. MaxContent : EditWrite(c, v)
          \/ \E ok \in BOOLEAN : VerifyRecord(c, ok)
          \/ FinishReview(c) \/ FinishState(c) \/ Abandon(c)

SuSpec == SuInit /\ [][SuNext]_suvars

-----------------------------------------------------------------------------
\* The evidence decides, not the agent: an accepted task has a review that says
\* VERIFIED, and the verification that was the newest on record when that review
\* read the journal had passed, however the calls overlapped and wherever one was
\* cut off; a failed task has a review that does not say so.  And le_edit wrote
\* nothing outside the scope of the task it named, by no link, unless the path was
\* led elsewhere between its check and its write.
AcceptedOnEvidence ==
    /\ \A t \in Tasks : tasks[t].state \in {"accepted", "failed"} =>
          \E r \in reviews :
              /\ r.task = t
              /\ (tasks[t].state = "accepted") <=> (r.verdict = "VERIFIED")
              /\ r.verdict = "VERIFIED" => r.upto > 0 /\ checks[t][r.upto].ok
    /\ \A e \in edited : e.moved \/ (e.to \in tasks[e.task].scope /\ e.to \notin Guarded)

\* "every result is tied to the exact content hash it describes": work reported
\* VERIFIED is the content that a passing verification has seen.
VerifiedIsCurrent ==
    \A r \in reviews : r.verdict = "VERIFIED" => r.tree = checks[r.task][r.upto].seen
=============================================================================
