---------------------------- MODULE BrokerProofs ----------------------------
(***************************************************************************)
(* Proofs about Broker, for any number of processes, contents, kinds and   *)
(* policies: what Ask reports as approved a person approved for exactly    *)
(* that content, every gate is journalled before it is opened, and the     *)
(* journal is closed only with answers that were given.                    *)
(***************************************************************************)
EXTENDS Broker, TLAPS

-----------------------------------------------------------------------------
(* Lemmas *)

\* There is something to ask about.
BrConstants == Kinds # {} /\ Candidates # {}

\* There is a gate, so an idle process has a well-typed state.
LEMMA IdleTyped == ASSUME BrConstants PROVE NoAsk \in AskState /\ NoDec \in DecState
<1>1. PICK k \in Kinds, c \in Candidates : <<k, c>> \in GateID
  BY DEF BrConstants, GateID
<1>2. AnyGate \in GateID
  BY <1>1 DEF AnyGate
<1> QED
  BY <1>2 DEF NoAsk, NoDec, AskState, DecState, Decision

\* Updating an element of a sequence keeps its type and its length.
LEMMA UpdateTyped ==
    ASSUME NEW S, NEW s \in Seq(S), NEW i \in DOMAIN s, NEW v \in S
    PROVE  /\ [s EXCEPT ![i] = v] \in Seq(S)
           /\ DOMAIN [s EXCEPT ![i] = v] = DOMAIN s
  OBVIOUS

\* Appending keeps what is there.
LEMMA AppendTyped ==
    ASSUME NEW S, NEW s \in Seq(S), NEW v \in S
    PROVE  /\ Append(s, v) \in Seq(S)
           /\ DOMAIN s \subseteq DOMAIN Append(s, v)
           /\ Len(s) + 1 \in DOMAIN Append(s, v)
           /\ Append(s, v) # << >>
           /\ \A j \in DOMAIN Append(s, v) :
                 \/ j \in DOMAIN s /\ Append(s, v)[j] = s[j]
                 \/ Append(s, v)[j] = v
  OBVIOUS

\* decidedFor returns the saved decision of this very gate, and only an answer.
LEMMA DecidedForThis ==
    ASSUME NEW g \in GateID, NEW r \in DecidedFor(g)
    PROVE  r = gates[g] /\ r \in Answers
  BY DEF DecidedFor

-----------------------------------------------------------------------------
(* Type correctness *)

\* The state of every Ask and Decide keeps its type, and the operation a
\* half-done one works on stays in the journal, for every policy and any
\* number of processes.
THEOREM BrokerTypeCorrect == ASSUME BrConstants PROVE Spec => []TypeInv
<1> USE DEF TypeInv, TypeOK, HoldsOperation
<1>1. Init => TypeInv
  BY IdleTyped DEF Init, NoAsk, NoDec, Outcome, Decision
<1>2. TypeInv /\ [Next]_vars => TypeInv'
  <2> SUFFICES ASSUME TypeInv, [Next]_vars PROVE TypeInv'
    OBVIOUS
  <2>1. ASSUME NEW a \in Askers, NEW g \in GateID, NEW ev \in Evidence,
               AskRead(a, g, ev)
        PROVE  TypeInv'
    <3>1. Needs(g[1], ev) \in BOOLEAN
      BY DEF Needs
    <3>2. \A r \in DecidedFor(g) : r \in Decision
      BY DecidedForThis DEF Answers, Decision
    <3> DEFINE R(p, r) == [pc |-> p, gate |-> g, needed |-> Needs(g[1], ev),
                           op |-> 0, result |-> r]
    <3>a. \E p \in {"returned", "begin"}, r \in {"none"} \cup Decision :
             ask' = [ask EXCEPT ![a] = R(p, r)]
      <4>1. "approved" \in Decision
        BY DEF Decision
      <4>2. \/ ask' = [ask EXCEPT ![a] = R("returned", "approved")]
            \/ \E r \in DecidedFor(g) : ask' = [ask EXCEPT ![a] = R("returned", r)]
            \/ ask' = [ask EXCEPT ![a] = R("begin", "none")]
        BY <2>1 DEF AskRead
      <4> HIDE DEF R
      <4> QED
        BY <3>2, <4>1, <4>2
    <3>b. PICK p \in {"returned", "begin"}, r \in {"none"} \cup Decision :
             ask' = [ask EXCEPT ![a] = R(p, r)]
      BY <3>a
    <3>c. R(p, r) \in AskState /\ R(p, r).pc # "save"
      BY <3>1 DEF AskState
    <3> HIDE DEF R
    <3>3. /\ ask' \in [Askers -> AskState] /\ ask'[a].pc # "save"
          /\ \A b \in Askers \ {a} : ask'[b] = ask[b]
      BY <3>b, <3>c
    <3> QED
      BY <2>1, <3>3 DEF AskRead
  <2>2. ASSUME NEW a \in Askers, AskBegin(a)
        PROVE  TypeInv'
    <3> DEFINE g == ask[a].gate
    <3>1. g \in GateID /\ ops[g] \in Seq(Outcome)
      BY DEF AskState
    <3>2. "open" \in Outcome /\ Len(ops[g]) + 1 \in Nat
      BY <3>1 DEF Outcome
    <3>3. /\ ops' = [ops EXCEPT ![g] = Append(ops[g], "open")]
          /\ ask' = [ask EXCEPT ![a].pc = "save", ![a].op = Len(ops[g]) + 1]
          /\ UNCHANGED <<gates, late, dec, given>>
      BY <2>2 DEF AskBegin
    <3>4. ops' \in [GateID -> Seq(Outcome)]
      BY <3>1, <3>2, <3>3, AppendTyped
    <3>5. \A h \in GateID : DOMAIN ops[h] \subseteq DOMAIN ops'[h]
      BY <3>1, <3>2, <3>3, AppendTyped
    <3>6. /\ ask' \in [Askers -> AskState]
          /\ ask'[a].gate = g /\ ask'[a].op = Len(ops[g]) + 1
          /\ \A b \in Askers \ {a} : ask'[b] = ask[b]
      BY <3>2, <3>3 DEF AskState
    <3>7. ask'[a].op \in DOMAIN ops'[g]
      BY <3>1, <3>2, <3>3, <3>6, AppendTyped
    <3>8. \A b \in Askers : ask[b].gate \in GateID
      BY DEF AskState
    <3>9. \A d \in Deciders : dec[d].gate \in GateID
      BY DEF DecState
    <3> HIDE DEF g
    <3>10. \A b \in Askers :
              ask'[b].pc = "save" => ask'[b].op \in DOMAIN ops'[ask'[b].gate]
      BY <3>5, <3>6, <3>7, <3>8
    <3>11. \A d \in Deciders :
              dec'[d].pc = "complete" => dec'[d].op \in DOMAIN ops'[dec'[d].gate]
      BY <3>3, <3>5, <3>9
    <3> QED
      BY <3>3, <3>4, <3>6, <3>10, <3>11
  <2>3. ASSUME NEW a \in Askers, AskSave(a)
        PROVE  TypeInv'
    <3> DEFINE g == ask[a].gate
    <3>1. g \in GateID /\ ops[g] \in Seq(Outcome) /\ ask[a].op \in DOMAIN ops[g]
      BY <2>3 DEF AskState, AskSave
    <3>2. ops' \in {ops, [ops EXCEPT ![g] = [ops[g] EXCEPT ![ask[a].op] = "failed"]]}
      BY <2>3 DEF AskSave
    <3>3. /\ ops' \in [GateID -> Seq(Outcome)]
          /\ \A h \in GateID : DOMAIN ops'[h] = DOMAIN ops[h]
      <4> DEFINE new == [ops[g] EXCEPT ![ask[a].op] = "failed"]
      <4>1. "failed" \in Outcome
        BY DEF Outcome
      <4>2. new \in Seq(Outcome) /\ DOMAIN new = DOMAIN ops[g]
        BY <3>1, <4>1, UpdateTyped
      <4>3. ops' \in {ops, [ops EXCEPT ![g] = new]}
        BY <3>2
      <4> HIDE DEF new, g
      <4> QED
        BY <3>1, <4>2, <4>3
    <3>a. /\ gates' \in {gates, [gates EXCEPT ![g] = "pending"]}
          /\ "pending" \in Decision
          /\ UNCHANGED <<late, dec, given>>
      BY <2>3 DEF AskSave, Decision
    <3>b. \E x \in AskState : x.pc # "save" /\ ask' = [ask EXCEPT ![a] = x]
      <4>1. CASE ask' = [ask EXCEPT ![a] = NoAsk]
        BY <4>1, IdleTyped DEF NoAsk
      <4>2. CASE ask' = [ask EXCEPT ![a].pc = "returned", ![a].result = "pending"]
        <5> DEFINE x == [ask[a] EXCEPT !.pc = "returned", !.result = "pending"]
        <5>1. x \in AskState /\ x.pc # "save"
          <6>1. ask[a] \in AskState
            OBVIOUS
          <6> QED
            BY ONLY <3>a, <6>1 DEF AskState
        <5>2. ask' = [ask EXCEPT ![a] = x]
          BY <4>2
        <5> QED
          BY <5>1, <5>2
      <4> QED
        BY <2>3, <4>1, <4>2 DEF AskSave
    <3>4. /\ gates' \in [GateID -> {"none"} \cup Decision]
          /\ ask' \in [Askers -> AskState] /\ ask'[a].pc # "save"
          /\ \A b \in Askers \ {a} : ask'[b] = ask[b]
          /\ UNCHANGED <<late, dec, given>>
      BY <3>1, <3>a, <3>b
    <3>5. \A b \in Askers : ask[b].gate \in GateID
      BY DEF AskState
    <3>6. \A d \in Deciders : dec[d].gate \in GateID
      BY DEF DecState
    <3> QED
      BY <3>3, <3>4, <3>5, <3>6
  <2>4. ASSUME NEW a \in Askers, AskDone(a) \/ CrashAsker(a)
        PROVE  TypeInv'
    <3>1. ask' = [ask EXCEPT ![a] = NoAsk] /\ UNCHANGED <<gates, late, ops, dec, given>>
      BY <2>4 DEF AskDone, CrashAsker
    <3>2. NoAsk.pc # "save"
      BY DEF NoAsk
    <3> QED
      BY <3>1, <3>2, IdleTyped
  <2>5. ASSUME NEW d \in Deciders, NEW g \in GateID,
               NEW decision \in Answers \cup {"expired"}, DecideGet(d, g, decision)
        PROVE  TypeInv'
    BY <2>5 DEF DecideGet, DecState, Answers, Decision
  <2>6. ASSUME NEW d \in Deciders, DecideSave(d)
        PROVE  TypeInv'
    <3>1. /\ dec[d].gate \in GateID /\ dec[d].decision \in Decision
          /\ dec' = [dec EXCEPT ![d].pc = "find"]
          /\ gates' = [gates EXCEPT ![dec[d].gate] = dec[d].decision]
          /\ UNCHANGED <<late, ops, ask>>
      BY <2>6 DEF DecideSave, DecState
    <3>2. given' \subseteq GateID \X Answers
      BY <2>6 DEF DecideSave
    <3>3. /\ dec' \in [Deciders -> DecState] /\ dec'[d].pc # "complete"
          /\ \A e \in Deciders \ {d} : dec'[e] = dec[e]
      BY <3>1 DEF DecState
    <3> QED
      BY <3>1, <3>2, <3>3
  <2>7. ASSUME NEW d \in Deciders, DecideFind(d)
        PROVE  TypeInv'
    <3>1. /\ dec[d].gate \in GateID
          /\ DOMAIN ops[dec[d].gate] \subseteq Nat
      BY DEF DecState
    <3>2. \/ dec' = [dec EXCEPT ![d] = NoDec]
          \/ \E i \in DOMAIN ops[dec[d].gate] :
                dec' = [dec EXCEPT ![d].pc = "complete", ![d].op = i]
      BY <2>7 DEF DecideFind
    <3>3. UNCHANGED <<gates, late, ops, ask, given>>
      BY <2>7 DEF DecideFind
    <3>4. CASE dec' = [dec EXCEPT ![d] = NoDec]
      BY <3>3, <3>4, IdleTyped DEF NoDec
    <3>5. ASSUME NEW i \in DOMAIN ops[dec[d].gate],
                 dec' = [dec EXCEPT ![d].pc = "complete", ![d].op = i]
          PROVE  TypeInv'
      <4> DEFINE x == [dec[d] EXCEPT !.pc = "complete", !.op = i]
      <4>1. dec[d] \in DecState /\ i \in Nat
        BY <3>1
      <4>2. x \in DecState /\ x.gate = dec[d].gate /\ x.op = i
        BY ONLY <4>1 DEF DecState
      <4>3. dec' = [dec EXCEPT ![d] = x]
        BY <3>5
      <4> HIDE DEF x
      <4> QED
        BY <3>3, <4>2, <4>3
    <3> QED
      BY <3>2, <3>4, <3>5
  <2>8. ASSUME NEW d \in Deciders, DecideComplete(d)
        PROVE  TypeInv'
    <3> DEFINE g == dec[d].gate
    <3>1. g \in GateID /\ ops[g] \in Seq(Outcome) /\ dec[d].op \in DOMAIN ops[g]
      BY <2>8 DEF DecState, DecideComplete
    <3>2. dec[d].decision \in Outcome
      BY DEF DecState, Outcome
    <3>3. /\ ops' = [ops EXCEPT ![g] = [ops[g] EXCEPT ![dec[d].op] = dec[d].decision]]
          /\ dec' = [dec EXCEPT ![d] = NoDec]
          /\ UNCHANGED <<gates, late, ask, given>>
      BY <2>8 DEF DecideComplete
    <3>4. /\ ops' \in [GateID -> Seq(Outcome)]
          /\ \A h \in GateID : DOMAIN ops'[h] = DOMAIN ops[h]
      BY <3>1, <3>2, <3>3, UpdateTyped
    <3>5. /\ dec' \in [Deciders -> DecState] /\ dec'[d].pc # "complete"
          /\ \A e \in Deciders \ {d} : dec'[e] = dec[e]
      BY <3>3, IdleTyped DEF NoDec
    <3>6. \A b \in Askers : ask[b].gate \in GateID
      BY DEF AskState
    <3>7. \A e \in Deciders : dec[e].gate \in GateID
      BY DEF DecState
    <3> QED
      BY <3>3, <3>4, <3>5, <3>6, <3>7
  <2>9. ASSUME NEW d \in Deciders, CrashDecider(d)
        PROVE  TypeInv'
    BY <2>9, IdleTyped DEF CrashDecider, NoDec
  <2>10. ASSUME NEW g \in GateID, Expires(g)
         PROVE  TypeInv'
    BY <2>10 DEF Expires
  <2>11. CASE UNCHANGED vars
    BY <2>11 DEF vars
  <2> QED
    BY <2>1, <2>2, <2>3, <2>4, <2>5, <2>6, <2>7, <2>8, <2>9, <2>10, <2>11
    DEF Next, Asking, Deciding
<1> QED
  BY <1>1, <1>2, PTL DEF Spec

-----------------------------------------------------------------------------
(* Answers *)

\* What a gate, a closed operation or a Decide under way says was answered has
\* been given; a gate that is being answered exists, so it was journalled.
AnswerInv ==
    /\ \A g \in GateID : gates[g] \in Answers => <<g, gates[g]>> \in given
    /\ \A d \in Deciders :
          /\ dec[d].pc = "save" => gates[dec[d].gate] # "none"
          /\ dec[d].pc \in {"find", "complete"} /\ dec[d].decision \in Answers =>
                <<dec[d].gate, dec[d].decision>> \in given

Safe == AnswerInv /\ ApprovalIsAPersons /\ JournalledFirst /\ ClosedAsGiven

\* The three properties and AnswerInv are one inductive invariant.
LEMMA SafeHolds ==
    ASSUME BrConstants
    PROVE  Spec => [](ApprovalIsAPersons /\ JournalledFirst /\ ClosedAsGiven)
<1> USE DEF Safe, AnswerInv, ApprovalIsAPersons, JournalledFirst, ClosedAsGiven
<1>1. Init => Safe
  BY IdleTyped DEF Init, NoAsk, NoDec, Answers, AskState, DecState
<1>2. TypeInv /\ Safe /\ [Next]_vars => Safe'
  <2> SUFFICES ASSUME TypeInv, Safe, [Next]_vars PROVE Safe'
    OBVIOUS
  <2> USE DEF TypeInv, TypeOK, HoldsOperation
  <2>a. \A a \in Askers : ask[a].gate \in GateID
    BY DEF AskState
  <2>d. \A d \in Deciders : dec[d].gate \in GateID /\ dec[d].decision \in Decision
    BY DEF DecState
  <2>1. ASSUME NEW a \in Askers, NEW g \in GateID, NEW ev \in Evidence,
               AskRead(a, g, ev)
        PROVE  Safe'
    <3>1. /\ \A b \in Askers \ {a} : ask'[b] = ask[b]
          /\ UNCHANGED <<gates, late, ops, dec, given>>
      BY <2>1 DEF AskRead
    <3>2. ask'[a].pc = "returned" /\ ask'[a].result = "approved" /\ ask'[a].needed =>
             <<ask'[a].gate, "approved">> \in given
      <4>1. CASE ~Needs(g[1], ev)
        BY <2>1, <4>1 DEF AskRead
      <4>2. ASSUME NEW r \in DecidedFor(g),
                   ask' = [ask EXCEPT ![a] = [pc |-> "returned", gate |-> g,
                                  needed |-> Needs(g[1], ev), op |-> 0, result |-> r]]
            PROVE  ask'[a].result = "approved" => <<ask'[a].gate, "approved">> \in given
        BY <4>2, DecidedForThis
      <4>3. CASE Needs(g[1], ev) /\ ask'[a].pc = "begin"
        BY <4>3
      <4> QED
        BY <2>1, <4>1, <4>2, <4>3 DEF AskRead
    <3> QED
      BY <3>1, <3>2
  <2>2. ASSUME NEW a \in Askers, AskBegin(a)
        PROVE  Safe'
    <3> DEFINE g == ask[a].gate
    <3>1. g \in GateID /\ ops[g] \in Seq(Outcome) /\ "open" \in Outcome
      BY <2>a DEF Outcome
    <3>2. /\ ops' = [ops EXCEPT ![g] = Append(ops[g], "open")]
          /\ ask' = [ask EXCEPT ![a].pc = "save", ![a].op = Len(ops[g]) + 1]
          /\ UNCHANGED <<gates, late, dec, given>>
      BY <2>2 DEF AskBegin
    <3>3. ops'[g] = Append(ops[g], "open") /\ \A h \in GateID \ {g} : ops'[h] = ops[h]
      BY <3>1, <3>2
    <3> HIDE DEF g
    <3>4. JournalledFirst'
      BY <3>1, <3>2, <3>3, AppendTyped
    <3>5. ClosedAsGiven'
      <4>1. "open" \notin Answers
        BY DEF Answers
      <4> QED
        BY <3>1, <3>2, <3>3, <4>1, AppendTyped
    <3>6. ApprovalIsAPersons'
      <4>1. ask'[a].pc = "save" /\ \A b \in Askers \ {a} : ask'[b] = ask[b]
        BY <3>2 DEF AskState
      <4> QED
        BY <3>2, <4>1
    <3>7. AnswerInv'
      BY <3>2
    <3> QED
      BY <3>4, <3>5, <3>6, <3>7
  <2>3. ASSUME NEW a \in Askers, AskSave(a)
        PROVE  Safe'
    <3> DEFINE g == ask[a].gate
    <3>1. g \in GateID /\ ops[g] \in Seq(Outcome) /\ ask[a].op \in DOMAIN ops[g]
      BY <2>3, <2>a DEF AskSave
    <3>2. /\ gates' \in {gates, [gates EXCEPT ![g] = "pending"]}
          /\ ops' \in {ops, [ops EXCEPT ![g] = [ops[g] EXCEPT ![ask[a].op] = "failed"]]}
          /\ UNCHANGED <<late, dec, given>>
      BY <2>3 DEF AskSave
    <3>3. /\ ask'[a].result # "approved"
          /\ \A b \in Askers \ {a} : ask'[b] = ask[b]
      <4>1. CASE ask' = [ask EXCEPT ![a] = NoAsk]
        BY <4>1 DEF NoAsk
      <4>2. CASE ask' = [ask EXCEPT ![a].pc = "returned", ![a].result = "pending"]
        <5>1. ask[a] \in AskState
          OBVIOUS
        <5>2. ask' = [ask EXCEPT ![a] = [ask[a] EXCEPT !.pc = "returned", !.result = "pending"]]
          BY <4>2
        <5> QED
          BY <5>1, <5>2 DEF AskState
      <4> QED
        BY <2>3, <4>1, <4>2 DEF AskSave
    <3>4. "failed" \notin Answers /\ "pending" \notin Answers
      BY DEF Answers
    <3> DEFINE new == [ops[g] EXCEPT ![ask[a].op] = "failed"]
    <3>5. DOMAIN new = DOMAIN ops[g] /\ new # << >> /\ ops[g] # << >>
          /\ \A i \in DOMAIN new : new[i] = ops[g][i] \/ new[i] = "failed"
      BY <3>1
    <3>6. ops' \in {ops, [ops EXCEPT ![g] = new]}
      BY <3>2
    <3> HIDE DEF g, new
    <3>7. JournalledFirst'
      BY <3>1, <3>2, <3>5, <3>6
    <3>8. ClosedAsGiven'
      BY <3>1, <3>2, <3>4, <3>5, <3>6
    <3>9. AnswerInv'
      BY <2>d, <3>1, <3>2, <3>4
    <3>10. ApprovalIsAPersons'
      BY <3>2, <3>3
    <3> QED
      BY <3>7, <3>8, <3>9, <3>10
  <2>4. ASSUME NEW a \in Askers, AskDone(a) \/ CrashAsker(a)
        PROVE  Safe'
    <3>1. ask' = [ask EXCEPT ![a] = NoAsk] /\ UNCHANGED <<gates, late, ops, dec, given>>
      BY <2>4 DEF AskDone, CrashAsker
    <3> QED
      BY <3>1 DEF NoAsk
  <2>5. ASSUME NEW d \in Deciders, NEW g \in GateID,
               NEW decision \in Answers \cup {"expired"}, DecideGet(d, g, decision)
        PROVE  Safe'
    BY <2>5 DEF DecideGet
  <2>6. ASSUME NEW d \in Deciders, DecideSave(d)
        PROVE  Safe'
    <3> DEFINE g == dec[d].gate  v == dec[d].decision
    <3>1. g \in GateID /\ v \in Decision /\ gates[g] # "none" /\ "none" \notin Decision
      BY <2>d, <2>6 DEF DecideSave, Decision
    <3>2. /\ gates' = [gates EXCEPT ![g] = v]
          /\ given' = given \cup ({<<g, v>>} \cap (GateID \X Answers))
          /\ dec' = [dec EXCEPT ![d] = [dec[d] EXCEPT !.pc = "find"]]
          /\ UNCHANGED <<late, ops, ask>>
      BY <2>6 DEF DecideSave
    <3>3. /\ dec'[d].pc = "find" /\ dec'[d].gate = g /\ dec'[d].decision = v
          /\ \A e \in Deciders \ {d} : dec'[e] = dec[e]
      BY <3>2 DEF DecState
    <3>4. given \subseteq given' /\ (v \in Answers => <<g, v>> \in given')
      BY <3>1, <3>2
    <3> HIDE DEF g, v
    <3>5. AnswerInv'
      BY <2>d, <3>1, <3>2, <3>3, <3>4
    <3>6. JournalledFirst'
      BY <3>1, <3>2
    <3>7. ClosedAsGiven' /\ ApprovalIsAPersons'
      BY <3>2, <3>4
    <3> QED
      BY <3>5, <3>6, <3>7
  <2>7. ASSUME NEW d \in Deciders, DecideFind(d)
        PROVE  Safe'
    <3>1. UNCHANGED <<gates, late, ops, ask, given>>
      BY <2>7 DEF DecideFind
    <3>2. /\ \A e \in Deciders \ {d} : dec'[e] = dec[e]
          /\ \/ dec'[d] = NoDec
             \/ /\ dec[d].pc = "find" /\ dec'[d].pc = "complete"
                /\ dec'[d].gate = dec[d].gate /\ dec'[d].decision = dec[d].decision
      BY <2>7 DEF DecideFind, DecState
    <3>3. AnswerInv'
      <4>1. \A g \in GateID : gates'[g] \in Answers => <<g, gates'[g]>> \in given'
        BY <3>1
      <4>2. ASSUME NEW e \in Deciders
            PROVE  /\ dec'[e].pc = "save" => gates'[dec'[e].gate] # "none"
                   /\ dec'[e].pc \in {"find", "complete"} /\ dec'[e].decision \in Answers =>
                         <<dec'[e].gate, dec'[e].decision>> \in given'
        <5>1. CASE dec'[e] = dec[e]
          BY <3>1, <5>1
        <5>2. CASE dec'[e] = NoDec
          BY <5>2 DEF NoDec
        <5>3. CASE /\ dec[e].pc = "find" /\ dec'[e].pc = "complete"
                   /\ dec'[e].gate = dec[e].gate /\ dec'[e].decision = dec[e].decision
          BY <3>1, <5>3
        <5> QED BY <3>2, <5>1, <5>2, <5>3
      <4> QED BY <4>1, <4>2
    <3> QED
      BY <3>1, <3>3
  <2>8. ASSUME NEW d \in Deciders, DecideComplete(d)
        PROVE  Safe'
    <3> DEFINE g == dec[d].gate  v == dec[d].decision
    <3> DEFINE new == [ops[g] EXCEPT ![dec[d].op] = v]
    <3>1. g \in GateID /\ ops[g] \in Seq(Outcome) /\ dec[d].op \in DOMAIN ops[g]
      BY <2>8, <2>d DEF DecideComplete
    <3>2. v \in Answers => <<g, v>> \in given
      BY <2>8 DEF DecideComplete
    <3>3. /\ ops' = [ops EXCEPT ![g] = new]
          /\ dec' = [dec EXCEPT ![d] = NoDec]
          /\ UNCHANGED <<gates, late, ask, given>>
      BY <2>8 DEF DecideComplete
    <3>4. /\ DOMAIN new = DOMAIN ops[g] /\ new # << >> /\ ops[g] # << >>
          /\ \A i \in DOMAIN new : new[i] = ops[g][i] \/ new[i] = v
      BY <3>1
    <3> HIDE DEF g, v, new
    <3>5. JournalledFirst'
      BY <3>1, <3>3, <3>4
    <3>6. ClosedAsGiven'
      BY <3>1, <3>2, <3>3, <3>4
    <3>7. AnswerInv' /\ ApprovalIsAPersons'
      BY <3>3 DEF NoDec
    <3> QED
      BY <3>5, <3>6, <3>7
  <2>9. ASSUME NEW d \in Deciders, CrashDecider(d)
        PROVE  Safe'
    BY <2>9 DEF CrashDecider, NoDec
  <2>10. ASSUME NEW g \in GateID, Expires(g)
         PROVE  Safe'
    BY <2>10 DEF Expires
  <2>11. CASE UNCHANGED vars
    BY <2>11 DEF vars
  <2> QED
    BY <2>1, <2>2, <2>3, <2>4, <2>5, <2>6, <2>7, <2>8, <2>9, <2>10, <2>11
    DEF Next, Asking, Deciding
<1> QED
  BY <1>1, <1>2, BrokerTypeCorrect, PTL DEF Spec

\* For every policy, every set of contents and any number of processes, with
\* crashes anywhere and deadlines passing at any time: what Broker.Ask reports
\* as approved a person approved for this very content.
THEOREM AnswersAreGiven == ASSUME BrConstants PROVE Spec => []ApprovalIsAPersons
  BY SafeHolds, PTL

\* A gate that was ever opened is in the journal, wherever a process died between
\* journalling it and saving it, and whoever asked again (Broker.Ask).
THEOREM GatesAreJournalled == ASSUME BrConstants PROVE Spec => []JournalledFirst
  BY SafeHolds, PTL

\* The journal closes an approval only with an answer that was saved for exactly
\* that gate, though two processes may answer it at once (Broker.Decide).
THEOREM JournalTellsAnswers == ASSUME BrConstants PROVE Spec => []ClosedAsGiven
  BY SafeHolds, PTL
=============================================================================
