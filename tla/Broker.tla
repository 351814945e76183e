------------------------------- MODULE Broker -------------------------------
(***************************************************************************)
(* The approval broker: Broker.Ask, Broker.Decide and Broker.Pending over  *)
(* the gates table and the operations journal.                             *)
(*                                                                         *)
(* Runners ask and people answer in different processes, through the same  *)
(* SQLite file.  Every read and every write is a transaction of its own,   *)
(* and nothing spans two of them: the calls are split at those points, and *)
(* a process may die at any of them.                                       *)
(***************************************************************************)
EXTENDS Integers, Sequences, FiniteSets

CONSTANTS
    Askers,       \* processes that run tasks
    Deciders,     \* processes that answer or list gates
    Candidates,   \* the contents a task may ask about
    Kinds,        \* the kinds of decision that are asked for, some of Kind
    Policy,       \* which decisions need a person, and whether gates expire
    MaxOps        \* bound on the journalled approvals

\* The kinds of decision.
Kind == {"plan", "impact", "out_of_scope", "apply", "budget"}

\* What a caller brings: how many consumers the change breaks and whether it
\* leaves the declared scope.
Evidence == [breaking : 0..2, outside : BOOLEAN]

\* Policy.Needs.
Needs(kind, ev) ==
    \/ kind = "plan" /\ Policy.plan
    \/ kind = "impact" /\ Policy.breaking /\ ev.breaking > 0
    \/ kind = "impact" /\ ~Policy.breaking /\ ev.breaking > Policy.maxBreakingAuto
    \/ kind = "out_of_scope" /\ Policy.outOfScope /\ ev.outside
    \/ kind = "apply" /\ Policy.apply
    \/ kind = "budget"

\* gateID: with a candidate, a gate is named after what it is about.
GateID == Kinds \X Candidates

Decision == {"pending", "approved", "rejected", "expired"}

Answers == {"approved", "rejected"}

-----------------------------------------------------------------------------

VARIABLES
    gates,   \* the gates table: each row's decision, "none" without a row
    late,    \* the rows whose expires_at has passed
    ops,     \* the journalled approvals of each gate, in order
    ask,     \* what each asker is doing
    dec,     \* what each decider is doing
    given    \* the answers people have given, from the first save on

vars == <<gates, late, ops, ask, dec, given>>

Outcome == {"open", "failed"} \cup Decision

AskState == [pc : {"idle", "begin", "save", "returned"}, gate : GateID,
             needed : BOOLEAN, op : Nat, result : {"none"} \cup Decision]

DecState == [pc : {"idle", "save", "find", "complete"}, gate : GateID,
             decision : Decision, op : Nat]

TypeOK ==
    /\ gates \in [GateID -> {"none"} \cup Decision]
    /\ late \subseteq GateID
    /\ ops \in [GateID -> Seq(Outcome)]
    /\ ask \in [Askers -> AskState]
    /\ dec \in [Deciders -> DecState]
    /\ given \subseteq GateID \X Answers

\* A process that is about to save or to close works on a journalled approval.
HoldsOperation ==
    /\ \A a \in Askers :
          ask[a].pc = "save" => ask[a].op \in DOMAIN ops[ask[a].gate]
    /\ \A d \in Deciders :
          dec[d].pc = "complete" => dec[d].op \in DOMAIN ops[dec[d].gate]

\* The types of the variables, and the operation every half-done Ask and Decide
\* refers to exists: Handle.Fail and complete never update a row that is not
\* there.
TypeInv == TypeOK /\ HoldsOperation

AnyGate == CHOOSE g \in GateID : TRUE

NoAsk == [pc |-> "idle", gate |-> AnyGate, needed |-> FALSE, op |-> 0,
          result |-> "none"]
NoDec == [pc |-> "idle", gate |-> AnyGate, decision |-> "pending", op |-> 0]

Init ==
    /\ gates = [g \in GateID |-> "none"]
    /\ late = {}
    /\ ops = [g \in GateID |-> <<>>]
    /\ ask = [a \in Askers |-> NoAsk]
    /\ dec = [d \in Deciders |-> NoDec]
    /\ given = {}

-----------------------------------------------------------------------------
(* Broker.Ask *)

\* The answers decidedFor accepts for gate g: decided, and not past the deadline.
DecidedForAny(g) ==
    {gates[h] : h \in {h \in GateID \ late : h[1] = g[1] /\ gates[h] \in Answers}}

DecidedFor(g) ==
    {gates[h] : h \in {h \in GateID \ late : h = g /\ gates[h] \in Answers}}

Journalled == UNION {{g} \X DOMAIN ops[g] : g \in GateID}

\* A decision the policy does not gate is approved and nothing is recorded; an
\* answer already given for this content is the answer.
AskRead(a, g, ev) ==
    /\ ask[a].pc = "idle"
    /\ LET returned(r) == [pc |-> "returned", gate |-> g, needed |-> Needs(g[1], ev),
                           op |-> 0, result |-> r]
       IN \/ ~Needs(g[1], ev) /\ ask' = [ask EXCEPT ![a] = returned("approved")]
          \/ /\ Needs(g[1], ev)
             /\ \E r \in DecidedFor(g) : ask' = [ask EXCEPT ![a] = returned(r)]
          \/ /\ Needs(g[1], ev) /\ DecidedFor(g) = {}
             /\ ask' = [ask EXCEPT ![a] = [returned("none") EXCEPT !.pc = "begin"]]
    /\ UNCHANGED <<gates, late, ops, dec, given>>

AskBeginUnjournalled(a) ==
    /\ ask[a].pc = "begin"
    /\ ask' = [ask EXCEPT ![a].pc = "save"]
    /\ UNCHANGED <<gates, late, ops, dec, given>>

\* The gate is journalled before it is opened.
AskBegin(a) ==
    /\ ask[a].pc = "begin"
    /\ LET g == ask[a].gate
       IN /\ Cardinality(Journalled) < MaxOps
          /\ ops' = [ops EXCEPT ![g] = Append(@, "open")]
          /\ ask' = [ask EXCEPT ![a].pc = "save", ![a].op = Len(ops[g]) + 1]
    /\ UNCHANGED <<gates, late, dec, given>>

\* The upsert of a pending gate.  A row that exists keeps its deadline; a save
\* that fails fails the journalled operation.
AskSave(a) ==
    /\ ask[a].pc = "save"
    /\ LET g == ask[a].gate
       IN \/ /\ gates' = [gates EXCEPT ![g] = "pending"]
             /\ ask' = [ask EXCEPT ![a].pc = "returned", ![a].result = "pending"]
             /\ ops' = ops
          \/ /\ gates' = gates
             /\ ops' = [ops EXCEPT ![g][ask[a].op] = "failed"]
             /\ ask' = [ask EXCEPT ![a] = NoAsk]
    /\ UNCHANGED <<late, dec, given>>

\* The caller has the decision and goes on, or comes back later.
AskDone(a) ==
    /\ ask[a].pc = "returned"
    /\ ask' = [ask EXCEPT ![a] = NoAsk]
    /\ UNCHANGED <<gates, late, ops, dec, given>>

-----------------------------------------------------------------------------
(* Broker.Decide and Broker.Pending *)

\* A person answers an open gate; Pending answers for the system one that is
\* past its deadline.
DecideGet(d, g, decision) ==
    /\ dec[d].pc = "idle"
    /\ gates[g] = "pending"
    /\ decision = "expired" => g \in late
    /\ dec' = [dec EXCEPT ![d] = [pc |-> "save", gate |-> g,
                                  decision |-> decision, op |-> 0]]
    /\ UNCHANGED <<gates, late, ops, ask, given>>

DecideSaveLater(d) ==
    /\ dec[d].pc = "save"
    /\ dec' = [dec EXCEPT ![d].pc = "find"]
    /\ UNCHANGED <<gates, late, ops, ask, given>>

DecideSave(d) ==
    /\ dec[d].pc = "save"
    /\ gates' = [gates EXCEPT ![dec[d].gate] = dec[d].decision]
    /\ given' = given \cup ({<<dec[d].gate, dec[d].decision>>} \cap (GateID \X Answers))
    /\ dec' = [dec EXCEPT ![d].pc = "find"]
    /\ UNCHANGED <<late, ops, ask>>

\* The journalled approval the answer closes: the first open one of this gate.
DecideFind(d) ==
    /\ dec[d].pc = "find"
    /\ LET open == {i \in DOMAIN ops[dec[d].gate] : ops[dec[d].gate][i] = "open"}
       IN \/ open = {} /\ dec' = [dec EXCEPT ![d] = NoDec]
          \/ \E i \in open : /\ \A j \in open : i <= j
                             /\ dec' = [dec EXCEPT ![d].pc = "complete", ![d].op = i]
    /\ UNCHANGED <<gates, late, ops, ask, given>>

DecideComplete(d) ==
    /\ dec[d].pc = "complete"
    /\ ops' = [ops EXCEPT ![dec[d].gate][dec[d].op] = dec[d].decision]
    /\ dec' = [dec EXCEPT ![d] = NoDec]
    /\ UNCHANGED <<gates, late, ask, given>>

-----------------------------------------------------------------------------
(* Time and failures *)

\* expires_at of an existing row passes.
Expires(g) ==
    /\ Policy.timeout
    /\ gates[g] # "none" /\ g \notin late
    /\ late' = late \cup {g}
    /\ UNCHANGED <<gates, ops, ask, dec, given>>

CrashAsker(a) ==
    /\ ask[a].pc # "idle"
    /\ ask' = [ask EXCEPT ![a] = NoAsk]
    /\ UNCHANGED <<gates, late, ops, dec, given>>

CrashDecider(d) ==
    /\ dec[d].pc # "idle"
    /\ dec' = [dec EXCEPT ![d] = NoDec]
    /\ UNCHANGED <<gates, late, ops, ask, given>>

Asking(a) ==
    \/ \E g \in GateID, ev \in Evidence : AskRead(a, g, ev)
    \/ AskBegin(a) \/ AskSave(a) \/ AskDone(a) \/ CrashAsker(a)

Deciding(d) ==
    \/ \E g \in GateID, decision \in Answers \cup {"expired"} :
          DecideGet(d, g, decision)
    \/ DecideSave(d) \/ DecideFind(d) \/ DecideComplete(d) \/ CrashDecider(d)

Next ==
    \/ \E a \in Askers : Asking(a)
    \/ \E d \in Deciders : Deciding(d)
    \/ \E g \in GateID : Expires(g)

Spec == Init /\ [][Next]_vars

-----------------------------------------------------------------------------
(* Properties *)

\* What Ask reports as approved a person approved, for exactly that kind and
\* content, or the policy did not gate: no answer is carried over to other
\* content, whoever crashed or overlapped in between.
ApprovalIsAPersons ==
    \A a \in Askers :
        ask[a].pc = "returned" /\ ask[a].result = "approved" /\ ask[a].needed =>
            <<ask[a].gate, "approved">> \in given

\* A gate that waits for a person, or ever did, is in the journal: a restart
\* finds it, even if the process died right after opening it.
JournalledFirst ==
    \A g \in GateID : gates[g] # "none" => ops[g] # <<>>

\* The journal closes an approval only with an answer that has been saved as
\* the gate's decision.
ClosedAsGiven ==
    \A g \in GateID : \A i \in DOMAIN ops[g] :
        ops[g][i] \in Answers => <<g, ops[g][i]>> \in given

\* An answer given for this exact content stays the answer until its deadline
\* passes, whoever asks again meanwhile.
AnswersStand ==
    \A r \in given : r[1] \notin late => gates[r[1]] \in Answers
=============================================================================
