-------------------------- MODULE AgentLoop_proofs --------------------------
(***************************************************************************)
(* Proofs about AgentLoop, for every set of tool calls, rules and handler  *)
(* answers and every bound.                                                *)
(***************************************************************************)
EXTENDS AgentLoop, FiniteSetTheorems, TLAPS

(* Evaluate answers one of the four decisions.                             *)
LEMMA DecisionType ==
  ASSUME NEW action, NEW rules
  PROVE  Decision(action, rules) \in Decisions
BY DEF Decision, MakeDecision, Decisions

(* A transition, legal or not, leads to a state of the table.              *)
LEMMA TransitionType ==
  ASSUME state \in AgentStates, NEW next \in AgentStates, Transition(next)
  PROVE  state' \in AgentStates
BY DEF Transition, TransitionTo

(* Every call is an action governance can look at.                         *)
LEMMA CallType == ASSUME NEW call \in Calls PROVE call.action \in Action
BY CallsAssumption

(* The calls of a response are a sequence of calls.                        *)
LEMMA ResponseType ==
  /\ \A calls \in Responses : calls \in Seq(Calls)
  /\ <<>> \in Responses
<1>1. \A calls \in Responses : calls \in Seq(Calls)
  BY BoundsAssumption DEF Responses
<1>2. <<>> \in [1 .. 0 -> Calls]
  OBVIOUS
<1> QED BY <1>1, <1>2, BoundsAssumption DEF Responses

(* While a call is being executed it is the first of the pending ones.     *)
CallOpen == pc \in {"ask", "execute", "tool"} => pending # <<>>

(* Between the head of the loop and the end of a round the budget is not   *)
(* used up.                                                                *)
InRound == pc \in {"generate", "call", "ask", "execute", "tool"} =>
             iterations < MaxIterations

TypeInv == TypeOK /\ CallOpen /\ InRound

(* The type of the reply to the first pending call.                        *)
LEMMA AnswerType ==
  ASSUME TypeOK, pending # <<>>, NEW kind \in Kinds, Answer(kind)
  PROVE  /\ messages' \in Seq(Message)
         /\ pending' \in Seq(Calls)
         /\ pc' = "call"
<1>1. Head(pending) \in Calls /\ Tail(pending) \in Seq(Calls)
  BY DEF TypeOK
<1>2. Reply(Head(pending), kind) \in Message
  BY <1>1 DEF Reply, Message
<1> QED BY <1>1, <1>2 DEF Answer, TypeOK

(* The type of a conversation that the model's message is added to.        *)
LEMMA ProposalType ==
  ASSUME TypeOK, NEW calls \in Responses
  PROVE  Append(messages, Proposal(calls)) \in Seq(Message)
<1>1. Proposal(calls) \in Message
  BY DEF Proposal, Message
<1> QED BY <1>1 DEF TypeOK

LEMMA TypeStep == TypeInv /\ [Next]_vars => TypeInv'
<1> SUFFICES ASSUME TypeInv, [Next]_vars PROVE TypeInv'
  OBVIOUS
<1> USE BoundsAssumption DEF TypeInv, CallOpen, InRound, Pcs, Results
<1>1. CASE UNCHANGED vars
  BY <1>1 DEF TypeOK, vars, loop, env, history
<1>2. CASE Run
  <2>1. Prompt \in Seq(Message)
    BY DEF Prompt, Message
  <2>2. Len(auditLog) \in Nat
    BY DEF TypeOK
  <2>3. <<>> \in Seq(Calls) /\ FALSE \in BOOLEAN
    OBVIOUS
  <2>4. runs' \in 0 .. MaxRuns
    BY <1>2 DEF TypeOK, Run
  <2>5. /\ messages' \in Seq(Message) /\ pending' \in Seq(Calls)
        /\ before' \in Nat /\ cancelled' \in BOOLEAN
    BY <1>2, <2>1, <2>2, <2>3 DEF Run
  <2> QED BY <1>2, <2>4, <2>5 DEF TypeOK, Run
<1>3. CASE CancelContext
  BY <1>3 DEF TypeOK, CancelContext, loop, history
<1>4. ASSUME NEW configured \in BOOLEAN, SetHITLHandler(configured)
      PROVE  TypeInv'
  BY <1>4 DEF TypeOK, SetHITLHandler, loop, history
<1>5. CASE Think
  <2>1. state' \in AgentStates
    BY <1>5, TransitionType DEF TypeOK, Think, AgentStates
  <2> QED BY <1>5, <2>1 DEF TypeOK, Think, env
<1>6. CASE ReturnCancelled
  BY <1>6 DEF TypeOK, ReturnCancelled, Return, env, history
<1>7. CASE ReturnExhausted
  <2>1. state' \in AgentStates
    BY <1>7, TransitionType DEF TypeOK, ReturnExhausted, AgentStates
  <2> QED BY <1>7, <2>1 DEF TypeOK, ReturnExhausted, Return, env, history
<1>8. CASE GenerateFails
  <2>1. state' \in AgentStates
    BY <1>8, TransitionType DEF TypeOK, GenerateFails, AgentStates
  <2> QED BY <1>8, <2>1 DEF TypeOK, GenerateFails, Return, env, history
<1>9. CASE Stop \/ FinishBadly
  <2>1. state' \in AgentStates
    BY <1>9, TransitionType DEF TypeOK, Stop, FinishBadly, AgentStates
  <2>2. messages' \in Seq(Message)
    BY <1>9, ProposalType, ResponseType DEF Stop, FinishBadly
  <2> QED
    BY <1>9, <2>1, <2>2 DEF TypeOK, Stop, FinishBadly, Return, env, history
<1>10. ASSUME NEW calls \in Responses, Propose(calls) PROVE TypeInv'
  <2>1. messages' \in Seq(Message) /\ pending' \in Seq(Calls)
    BY <1>10, ProposalType, ResponseType DEF Propose
  <2> QED BY <1>10, <2>1 DEF TypeOK, Propose, env, history
<1>11. CASE ParseFails
  <2>1. messages' \in Seq(Message) /\ pending' \in Seq(Calls) /\ pc' = "call"
    BY <1>11, AnswerType DEF ParseFails, Kinds
  <2> QED BY <1>11, <2>1 DEF TypeOK, ParseFails, env, history
<1>12. CASE Evaluate
  <2> DEFINE action == Head(pending).action
             d == Decision(action, Rules)
  <2>1. state' \in AgentStates
    BY <1>12, TransitionType DEF TypeOK, Evaluate, AgentStates
  <2>2. auditLog' \in Seq([action : Action, decision : Decisions])
    <3>1. Head(pending) \in Calls
      BY <1>12 DEF TypeOK, Evaluate, Parsed
    <3>2. [action |-> action, decision |-> d] \in
             [action : Action, decision : Decisions]
      BY <3>1, CallType, DecisionType
    <3> QED BY <1>12, <3>2 DEF TypeOK, Evaluate
  <2>3. /\ messages' \in Seq(Message) /\ pending' \in Seq(Calls)
        /\ pc' \in {"call", "ask", "execute", "idle"}
        /\ pc' \in {"ask", "execute"} => pending' # <<>>
        /\ result' \in Results
    <3>1. pending # <<>> /\ After(d)
      BY <1>12 DEF Evaluate, Parsed
    <3>2. CASE d = "deny"
      <4>1. Answer("denied") /\ UNCHANGED result
        BY <3>1, <3>2 DEF After
      <4> QED BY <3>1, <4>1, AnswerType DEF Kinds, TypeOK
    <3>3. CASE d = "escalate"
      <4>1. Answer("escalated") /\ UNCHANGED result
        BY <3>1, <3>3 DEF After
      <4> QED BY <3>1, <4>1, AnswerType DEF Kinds, TypeOK
    <3>4. CASE d \in {"require_approval", "allow"}
      BY <3>1, <3>4 DEF After, TypeOK
    <3> QED BY <3>2, <3>3, <3>4, DecisionType DEF Decisions
  <2> QED BY <1>12, <2>1, <2>2, <2>3 DEF TypeOK, Evaluate, history
<1>13. CASE ToolRefuses
  <2>1. state' \in AgentStates
    BY <1>13, TransitionType DEF TypeOK, ToolRefuses, AgentStates
  <2>2. messages' \in Seq(Message) /\ pending' \in Seq(Calls) /\ pc' = "call"
    BY <1>13, AnswerType DEF ToolRefuses, Kinds
  <2> QED BY <1>13, <2>1, <2>2 DEF TypeOK, ToolRefuses, env, history
<1>14. CASE Execute
  <2>1. state' \in AgentStates
    BY <1>14, TransitionType DEF TypeOK, Execute, AgentStates
  <2>2. executed' \in Seq(Nat)
    BY <1>14 DEF TypeOK, Execute
  <2> QED BY <1>14, <2>1, <2>2 DEF TypeOK, Execute, env
<1>15. CASE EndRound
  BY <1>15 DEF TypeOK, EndRound, env, history
<1>16. CASE ToolFails
  <2>1. messages' \in Seq(Message) /\ pending' \in Seq(Calls) /\ pc' = "call"
    BY <1>16, AnswerType DEF ToolFails, Kinds
  <2> QED BY <1>16, <2>1 DEF TypeOK, ToolFails, env, history
<1>17. CASE Observe
  <2>1. state' \in AgentStates
    BY <1>17, TransitionType DEF TypeOK, Observe, AgentStates
  <2>2. messages' \in Seq(Message) /\ pending' \in Seq(Calls) /\ pc' = "call"
    BY <1>17, AnswerType DEF Observe, Kinds
  <2> QED BY <1>17, <2>1, <2>2 DEF TypeOK, Observe, env, history
<1>18. ASSUME NEW d \in HandlerAnswers, HandlerReturns(d) PROVE TypeInv'
  <2>1. approvals' \in Seq(Nat \X HandlerAnswers)
    BY <1>18 DEF TypeOK, HandlerReturns
  <2>2. messages' \in Seq(Message) /\ pending' \in Seq(Calls)
    <3>1. CASE d = "deny"
      BY <1>18, <3>1, AnswerType DEF HandlerReturns, Kinds
    <3>2. CASE d # "deny"
      BY <1>18, <3>2 DEF HandlerReturns, TypeOK
    <3> QED BY <3>1, <3>2
  <2>3. \/ pc' = "call"
        \/ pc' = "execute" /\ pending' = pending
    BY <1>18 DEF HandlerReturns, Answer
  <2> QED BY <1>18, <2>1, <2>2, <2>3 DEF TypeOK, HandlerReturns, env
<1> QED
  BY <1>1, <1>2, <1>3, <1>4, <1>5, <1>6, <1>7, <1>8, <1>9, <1>10,
     <1>11, <1>12, <1>13, <1>14, <1>15, <1>16, <1>17, <1>18
     DEF Next, Internal, Generated, ToolReturns

LEMMA TypeInvariant == Spec => []TypeInv
<1>1. ASSUME Init PROVE TypeInv
  <2>1. /\ <<>> \in Seq(Message) /\ <<>> \in Seq(Calls)
        /\ <<>> \in Seq([action : Action, decision : Decisions])
        /\ <<>> \in Seq(Nat) /\ <<>> \in Seq(Nat \X HandlerAnswers)
    OBVIOUS
  <2>2. 0 \in Nat /\ FALSE \in BOOLEAN
    OBVIOUS
  <2>3. 0 \in 0 .. MaxIterations /\ 0 \in 0 .. MaxRuns /\ 0 \in Nat
    BY BoundsAssumption
  <2>4. /\ pc = "idle" /\ pc \in Pcs /\ state \in AgentStates
        /\ result \in Results
    BY <1>1 DEF Init, Pcs, Results, AgentStates
  <2>5. TypeOK
    BY <1>1, <2>1, <2>2, <2>3, <2>4 DEF Init, TypeOK
  <2> QED BY <2>4, <2>5 DEF TypeInv, CallOpen, InRound
<1> QED BY <1>1, TypeStep, PTL DEF Spec

(* Every variable of the loop keeps its type.                              *)
THEOREM TypeCorrect == Spec => []TypeOK
BY TypeInvariant, PTL DEF TypeInv

-----------------------------------------------------------------------------
(* The gate.                                                               *)

(* Before an execution, the last entry of the audit log is about the       *)
(* action to be executed and has not been used.                            *)
Fresh == \A k \in 1 .. Len(executed) : executed[k] < Len(auditLog)

AtGate ==
  /\ pc \in {"ask", "execute"} => Len(auditLog) > 0 /\ Fresh
  /\ pc = "ask" => auditLog[Len(auditLog)].decision = "require_approval"
  /\ pc = "execute" => LetThrough(Len(auditLog))

GateInv == Gated /\ AtGate

(* Steps that touch neither the log nor the executions, and do not reach   *)
(* the gate, preserve it.                                                  *)
LEMMA GateFrame ==
  ASSUME GateInv, UNCHANGED <<auditLog, executed, approvals>>,
         pc' = pc \/ pc' \notin {"ask", "execute"}
  PROVE  GateInv'
BY DEF GateInv, Gated, AtGate, Fresh, LetThrough

LEMMA GateEvaluate == ASSUME TypeOK, GateInv, Evaluate PROVE GateInv'
<1> DEFINE n == Len(auditLog)
           action == Head(pending).action
           d == Decision(action, Rules)
           entry == [action |-> action, decision |-> d]
<1>1. /\ n \in Nat /\ executed \in Seq(Nat)
      /\ Len(auditLog') = n + 1
      /\ auditLog'[n + 1] = entry
      /\ \A i \in 1 .. n : auditLog'[i] = auditLog[i]
  BY DEF TypeOK, Evaluate
<1>2. executed' = executed /\ approvals' = approvals
  BY DEF Evaluate, history
<1>3. \A i \in 1 .. n : LetThrough(i) => LetThrough(i)'
  BY <1>1, <1>2 DEF LetThrough
<1>4. Gated'
  BY <1>1, <1>2, <1>3 DEF Gated, GateInv
<1>5. Len(auditLog') > 0 /\ Fresh'
  BY <1>1, <1>2 DEF Fresh, Gated, GateInv
<1>6. d \in Decisions /\ After(d)
  BY DecisionType DEF Evaluate
<1>7. CASE d = "allow"
  <2>1. pc' = "execute" /\ auditLog'[Len(auditLog')].decision = "allow"
    BY <1>1, <1>6, <1>7 DEF After
  <2> QED BY <2>1, <1>4, <1>5 DEF GateInv, AtGate, LetThrough
<1>8. CASE d = "require_approval"
  <2>1. pc' \in {"ask", "idle"}
    BY <1>6, <1>8 DEF After
  <2>2. auditLog'[Len(auditLog')].decision = "require_approval"
    BY <1>1, <1>8
  <2> QED BY <2>1, <2>2, <1>4, <1>5 DEF GateInv, AtGate
<1>9. CASE d \in {"deny", "escalate"}
  <2>1. pc' = "call"
    BY <1>6, <1>9 DEF After, Answer
  <2> QED BY <2>1, <1>4 DEF GateInv, AtGate
<1> QED BY <1>6, <1>7, <1>8, <1>9 DEF Decisions

LEMMA GateHandler ==
  ASSUME TypeOK, GateInv, NEW d \in HandlerAnswers, HandlerReturns(d)
  PROVE  GateInv'
<1> DEFINE n == Len(auditLog)
           m == Len(approvals)
<1>1. /\ n \in Nat /\ m \in Nat /\ Len(approvals') = m + 1
      /\ approvals'[m + 1] = <<n, d>>
      /\ \A i \in 1 .. m : approvals'[i] = approvals[i]
  BY DEF TypeOK, HandlerReturns
<1>2. executed' = executed /\ auditLog' = auditLog
  BY DEF HandlerReturns
<1>3. \A i : LetThrough(i) => LetThrough(i)'
  BY <1>1, <1>2 DEF LetThrough
<1>4. Gated'
  BY <1>2, <1>3 DEF Gated, GateInv
<1>5. /\ n > 0 /\ Fresh'
      /\ auditLog[n].decision = "require_approval"
  BY <1>2 DEF GateInv, AtGate, HandlerReturns, Fresh
<1>6. CASE d = "deny"
  <2>1. pc' = "call"
    BY <1>6 DEF HandlerReturns, Answer
  <2> QED BY <2>1, <1>4 DEF GateInv, AtGate
<1>7. CASE d # "deny"
  <2>1. pc' = "execute"
    BY <1>7 DEF HandlerReturns
  <2>2. approvals'[m + 1][1] = n /\ approvals'[m + 1][2] # "deny"
    BY <1>1, <1>7
  <2>3. LetThrough(n)'
    BY <1>1, <1>2, <1>5, <2>2 DEF LetThrough
  <2> QED BY <1>2, <1>4, <1>5, <2>1, <2>3 DEF GateInv, AtGate
<1> QED BY <1>6, <1>7

LEMMA GateExecute == ASSUME TypeOK, GateInv, Execute PROVE GateInv'
<1> DEFINE n == Len(auditLog)
           m == Len(executed)
<1>1. /\ n \in Nat /\ m \in Nat /\ Len(executed') = m + 1
      /\ executed'[m + 1] = n
      /\ \A i \in 1 .. m : executed'[i] = executed[i]
  BY DEF TypeOK, Execute
<1>2. auditLog' = auditLog /\ approvals' = approvals /\ pc' = "tool"
  BY DEF Execute
<1>3. n > 0 /\ Fresh /\ LetThrough(n)
  BY DEF GateInv, AtGate, Execute
<1>4. n \in 1 .. n
  BY <1>1, <1>3
<1>5. \A k \in 1 .. m + 1 : (executed[k] \in 1 .. n /\ LetThrough(executed[k]))'
  <2> SUFFICES ASSUME NEW k \in 1 .. m + 1
               PROVE  (executed[k] \in 1 .. n /\ LetThrough(executed[k]))'
    OBVIOUS
  <2>1. CASE k = m + 1
    <3>1. executed'[k] = n
      BY <1>1, <2>1
    <3> QED BY <3>1, <1>2, <1>3, <1>4 DEF LetThrough
  <2>2. CASE k \in 1 .. m
    <3>1. executed'[k] = executed[k]
      BY <1>1, <2>2
    <3>2. executed[k] \in 1 .. n /\ LetThrough(executed[k])
      BY <2>2 DEF GateInv, Gated
    <3> QED BY <3>1, <3>2, <1>2 DEF LetThrough
  <2> QED BY <1>1, <2>1, <2>2
<1>6. \A k \in 1 .. m : executed'[k] < executed'[k + 1]
  <2> SUFFICES ASSUME NEW k \in 1 .. m PROVE executed'[k] < executed'[k + 1]
    OBVIOUS
  <2>1. CASE k = m
    BY <1>1, <1>3, <2>1 DEF Fresh
  <2>2. CASE k \in 1 .. m - 1
    BY <1>1, <2>2 DEF GateInv, Gated
  <2> QED BY <1>1, <2>1, <2>2
<1> QED BY <1>1, <1>2, <1>5, <1>6 DEF GateInv, Gated, AtGate

LEMMA GateStep == TypeOK /\ GateInv /\ [Next]_vars => GateInv'
<1> SUFFICES ASSUME TypeOK, GateInv, [Next]_vars PROVE GateInv'
  OBVIOUS
<1>1. CASE UNCHANGED vars
  BY <1>1, GateFrame DEF vars, loop, history
<1>2. CASE Run \/ CancelContext
  BY <1>2, GateFrame DEF Run, CancelContext, loop, history
<1>3. ASSUME NEW configured \in BOOLEAN, SetHITLHandler(configured)
      PROVE  GateInv'
  BY <1>3, GateFrame DEF SetHITLHandler, loop, history
<1>4. CASE Think \/ ReturnCancelled \/ ReturnExhausted
  BY <1>4, GateFrame
     DEF Think, ReturnCancelled, ReturnExhausted, Return, history
<1>5. CASE GenerateFails \/ Stop \/ FinishBadly
  BY <1>5, GateFrame DEF GenerateFails, Stop, FinishBadly, Return, history
<1>6. ASSUME NEW calls \in Responses, Propose(calls) PROVE GateInv'
  BY <1>6, GateFrame DEF Propose, history
<1>7. CASE ParseFails \/ ToolRefuses \/ ToolFails \/ Observe \/ EndRound
  BY <1>7, GateFrame
     DEF ParseFails, ToolRefuses, ToolFails, Observe, EndRound, Answer, history
<1> QED
  BY <1>1, <1>2, <1>3, <1>4, <1>5, <1>6, <1>7, GateEvaluate, GateHandler,
     GateExecute
     DEF Next, Internal, Generated, ToolReturns

(* executeToolCall never executes what governance or the person stopped,   *)
(* whatever sequence of responses, answers and cancellations comes.        *)
THEOREM GatedCorrect == Spec => []Gated
<1>1. Init => GateInv
  BY DEF Init, GateInv, Gated, AtGate
<1>2. TypeInv /\ GateInv /\ [Next]_vars => GateInv'
  BY GateStep DEF TypeInv
<1>3. GateInv => Gated
  BY DEF GateInv
<1> QED BY <1>1, <1>2, <1>3, TypeInvariant, PTL DEF Spec

-----------------------------------------------------------------------------
(* The budget.                                                             *)

(* At the head of the loop no call of Generate is left to be counted.      *)
BudgetInv ==
  IF pc = "head" THEN generated < iterations + runs
                 ELSE generated <= iterations + runs

LEMMA BudgetStep == TypeInv /\ BudgetInv /\ [Next]_vars => BudgetInv'
<1> SUFFICES ASSUME TypeInv, BudgetInv, [Next]_vars PROVE BudgetInv'
  OBVIOUS
<1>1. generated \in Nat /\ iterations \in Nat /\ runs \in Nat
  BY BoundsAssumption DEF TypeInv, TypeOK
<1>2. ASSUME generated' = generated, iterations' = iterations, runs' = runs,
             pc' = pc \/ pc' # "head"
      PROVE  BudgetInv'
  BY <1>1, <1>2 DEF BudgetInv
<1>3. CASE UNCHANGED vars
  BY <1>2, <1>3 DEF vars, loop, history
<1>4. CASE Run
  BY <1>1, <1>4 DEF Run, BudgetInv
<1>5. CASE Think
  BY <1>1, <1>5 DEF Think, BudgetInv
<1>6. CASE EndRound
  BY <1>1, <1>6 DEF EndRound, BudgetInv, history
<1>7. CASE CancelContext
  BY <1>2, <1>7 DEF CancelContext, loop, history
<1>8. ASSUME NEW configured \in BOOLEAN, SetHITLHandler(configured)
      PROVE  BudgetInv'
  BY <1>2, <1>8 DEF SetHITLHandler, loop, history
<1>9. CASE ReturnCancelled \/ ReturnExhausted
  BY <1>2, <1>9 DEF ReturnCancelled, ReturnExhausted, Return, history
<1>10. CASE GenerateFails \/ Stop \/ FinishBadly
  BY <1>2, <1>10 DEF GenerateFails, Stop, FinishBadly, Return, history
<1>11. ASSUME NEW calls \in Responses, Propose(calls) PROVE BudgetInv'
  BY <1>2, <1>11 DEF Propose, history
<1>12. CASE ParseFails \/ ToolRefuses \/ ToolFails \/ Observe
  BY <1>2, <1>12
     DEF ParseFails, ToolRefuses, ToolFails, Observe, Answer, history
<1>13. CASE Evaluate
  <2> DEFINE d == Decision(Head(pending).action, Rules)
  <2>1. d \in Decisions /\ After(d)
    BY <1>13, DecisionType DEF Evaluate
  <2>2. pc' # "head"
    BY <2>1 DEF After, Answer, Decisions
  <2> QED BY <1>2, <1>13, <2>2 DEF Evaluate, history
<1>14. CASE Execute
  BY <1>2, <1>14 DEF Execute
<1>15. ASSUME NEW d \in HandlerAnswers, HandlerReturns(d) PROVE BudgetInv'
  BY <1>2, <1>15 DEF HandlerReturns, Answer
<1> QED
  BY <1>3, <1>4, <1>5, <1>6, <1>7, <1>8, <1>9, <1>10, <1>11, <1>12, <1>13,
     <1>14, <1>15 DEF Next, Internal, Generated, ToolReturns

(* Over all runs of one loop the model is called at most MaxIterations     *)
(* times, and once more for every run.                                     *)
THEOREM BudgetCorrect == Spec => []Budget
<1>1. Init => BudgetInv
  BY DEF Init, BudgetInv
<1>2. TypeInv /\ BudgetInv => Budget
  BY BoundsAssumption DEF TypeInv, TypeOK, BudgetInv, Budget
<1> QED BY <1>1, <1>2, BudgetStep, TypeInvariant, PTL DEF Spec

-----------------------------------------------------------------------------
(* The state.                                                              *)

(* Every step leaves the state alone or tries one transition.              *)
LEMMA StateMoves ==
  ASSUME [Next]_vars
  PROVE  \/ state' = state
         \/ \E next \in AgentStates : Transition(next)
<1>1. CASE UNCHANGED vars
  BY <1>1 DEF vars, loop
<1>2. CASE Run \/ CancelContext \/ ReturnCancelled
  BY <1>2 DEF Run, CancelContext, ReturnCancelled, loop
<1>3. CASE Think \/ ReturnExhausted \/ Evaluate \/ ToolRefuses \/ Execute
  BY <1>3
     DEF Think, ReturnExhausted, Evaluate, ToolRefuses, Execute, AgentStates
<1>4. CASE GenerateFails \/ Stop \/ FinishBadly \/ Observe
  BY <1>4 DEF GenerateFails, Stop, FinishBadly, Observe, AgentStates
<1>5. CASE ParseFails \/ ToolFails \/ EndRound
  BY <1>5 DEF ParseFails, ToolFails, EndRound
<1>6. ASSUME NEW configured \in BOOLEAN, SetHITLHandler(configured)
      PROVE  state' = state
  BY <1>6 DEF SetHITLHandler, loop
<1>7. ASSUME NEW calls \in Responses, Propose(calls) PROVE state' = state
  BY <1>7 DEF Propose
<1>8. ASSUME NEW d \in HandlerAnswers, HandlerReturns(d) PROVE state' = state
  BY <1>8 DEF HandlerReturns
<1> QED
  BY <1>1, <1>2, <1>3, <1>4, <1>5, <1>6, <1>7, <1>8
     DEF Next, Internal, Generated, ToolReturns

(* Nothing leads out of terminated, whatever transition is tried.          *)
THEOREM TerminatedAbsorbingCorrect == Spec => TerminatedAbsorbing
<1>1. ASSUME [Next]_vars, state = "terminated" PROVE state' = "terminated"
  <2>1. ASSUME NEW next \in AgentStates, Transition(next)
        PROVE  state' = "terminated"
    BY <1>1, <2>1
       DEF Transition, TransitionTo, CanTransitionTo, TransitionTable,
           AgentStates
  <2> QED BY <1>1, <2>1, StateMoves
<1> QED BY <1>1, PTL DEF Spec, TerminatedAbsorbing

(* The loop has left idle once it has called Generate; outside Run the     *)
(* result tells the state, inside Run there is no result yet.              *)
OutcomeInv ==
  /\ state = "idle" => pc \in {"idle", "head"} /\ iterations = 0
  /\ pc # "idle" => result = "none"
  /\ OutcomeShowsInState

(* A transition to error or terminated takes every state but idle there,   *)
(* or leaves it terminated.                                                *)
LEMMA FinalTransition ==
  ASSUME state \in AgentStates \ {"idle"}
  PROVE  /\ Transition("error") => state' \in {"error", "terminated"}
         /\ Transition("terminated") => state' = "terminated"
BY DEF Transition, TransitionTo, CanTransitionTo, TransitionTable, AgentStates

(* No transition leads to idle, and idle can only be left for thinking.    *)
LEMMA IdleTransition ==
  ASSUME state \in AgentStates, NEW next \in AgentStates \ {"idle"},
         Transition(next)
  PROVE  /\ state # "idle" => state' # "idle"
         /\ next = "thinking" => state' # "idle"
BY DEF Transition, TransitionTo, CanTransitionTo, TransitionTable, AgentStates

LEMMA OutcomeStep == TypeInv /\ OutcomeInv /\ [Next]_vars => OutcomeInv'
<1> SUFFICES ASSUME TypeInv, OutcomeInv, [Next]_vars PROVE OutcomeInv'
  OBVIOUS
<1> USE DEF OutcomeInv, OutcomeShowsInState
<1>1. state \in AgentStates /\ iterations \in 0 .. MaxIterations
  BY DEF TypeInv, TypeOK
<1>2. ASSUME result' = "none", state' # "idle" PROVE OutcomeInv'
  BY <1>2
<1>3. ASSUME pc \notin {"idle", "head"}, result' = result, pc' # "idle",
             \/ state' = state
             \/ \E next \in AgentStates \ {"idle"} : Transition(next)
      PROVE  OutcomeInv'
  BY <1>1, <1>2, <1>3, IdleTransition
<1>4. CASE UNCHANGED vars
  BY <1>4 DEF vars, loop
<1>5. CASE Run
  BY <1>5 DEF Run
<1>6. CASE CancelContext
  BY <1>6 DEF CancelContext, loop
<1>7. ASSUME NEW configured \in BOOLEAN, SetHITLHandler(configured)
      PROVE  OutcomeInv'
  BY <1>7 DEF SetHITLHandler, loop
<1>8. CASE Think
  <2>1. state' # "idle"
    BY <1>1, <1>8, IdleTransition DEF Think, AgentStates
  <2> QED BY <1>2, <1>8, <2>1 DEF Think
<1>9. CASE ReturnCancelled
  BY <1>9 DEF ReturnCancelled, Return
<1>10. CASE ReturnExhausted
  <2>1. state # "idle"
    BY <1>1, <1>10, BoundsAssumption DEF ReturnExhausted
  <2>2. state' \in {"error", "terminated"}
    BY <1>1, <1>10, <2>1, FinalTransition DEF ReturnExhausted
  <2> QED BY <1>10, <2>2 DEF ReturnExhausted, Return
<1>11. CASE GenerateFails \/ FinishBadly
  <2>1. state' \in {"error", "terminated"}
    BY <1>1, <1>11, FinalTransition DEF GenerateFails, FinishBadly
  <2> QED BY <1>11, <2>1 DEF GenerateFails, FinishBadly, Return
<1>12. CASE Stop
  <2>1. state' = "terminated"
    BY <1>1, <1>12, FinalTransition DEF Stop
  <2> QED BY <1>12, <2>1 DEF Stop, Return
<1>13. ASSUME NEW calls \in Responses, Propose(calls) PROVE OutcomeInv'
  BY <1>3, <1>13 DEF Propose
<1>14. CASE ParseFails \/ ToolFails \/ EndRound
  <2>1. pc \notin {"idle", "head"} /\ state' = state /\ result' = result
    BY <1>14 DEF ParseFails, ToolFails, EndRound
  <2>2. pc' # "idle"
    BY <1>14 DEF ParseFails, ToolFails, EndRound, Answer
  <2> QED BY <1>3, <2>1, <2>2
<1>15. CASE ToolRefuses \/ Execute \/ Observe
  <2>1. \E next \in AgentStates \ {"idle"} : Transition(next)
    BY <1>15 DEF ToolRefuses, Execute, Observe, AgentStates
  <2>2. pc \notin {"idle", "head"} /\ pc' # "idle" /\ result' = result
    BY <1>15 DEF ToolRefuses, Execute, Observe, Answer
  <2> QED BY <1>3, <2>1, <2>2
<1>16. CASE Evaluate
  <2> DEFINE d == Decision(Head(pending).action, Rules)
  <2>1. d \in Decisions /\ After(d)
    BY <1>16, DecisionType DEF Evaluate
  <2>2. state' # "idle"
    BY <1>1, <1>16, IdleTransition DEF Evaluate, AgentStates
  <2>3. \/ pc' # "idle" /\ result' = result
        \/ pc' = "idle" /\ result' = "hitl"
    BY <2>1 DEF After, Answer, Decisions
  <2>4. result = "none"
    BY <1>16 DEF Evaluate
  <2> QED BY <2>2, <2>3, <2>4
<1>17. ASSUME NEW d \in HandlerAnswers, HandlerReturns(d) PROVE OutcomeInv'
  <2>1. pc' # "idle"
    BY <1>17 DEF HandlerReturns, Answer
  <2> QED BY <1>3, <1>17, <2>1 DEF HandlerReturns
<1> QED
  BY <1>4, <1>5, <1>6, <1>7, <1>8, <1>9, <1>10, <1>11, <1>12, <1>13, <1>14,
     <1>15, <1>16, <1>17 DEF Next, Internal, Generated, ToolReturns

(* What Run returned can be read off the state.                            *)
THEOREM OutcomeShowsInStateCorrect == Spec => []OutcomeShowsInState
<1>1. Init => OutcomeInv
  BY DEF Init, OutcomeInv, OutcomeShowsInState
<1>2. OutcomeInv => OutcomeShowsInState
  BY DEF OutcomeInv
<1> QED BY <1>1, <1>2, OutcomeStep, TypeInvariant, PTL DEF Spec

-----------------------------------------------------------------------------
(* The conversation.                                                       *)

(* With the calls still pending put behind them, the messages are in       *)
(* order: whatever the model proposed is followed by the replies to its    *)
(* calls, and these by its next proposal or by nothing.  Nothing is        *)
(* pending when the model is asked.                                        *)
InOrder(said, open, i) ==
  LET calls == said[i].calls
      next == i + Len(calls) + 1
  IN  /\ next <= Len(said) => said[next].role = "assistant"
      /\ next > Len(said) => next = Len(said) + Len(open) + 1
      /\ \A k \in 1 .. Len(calls) :
           IF i + k <= Len(said)
             THEN said[i + k].role = "tool" /\ said[i + k].call = calls[k]
             ELSE open[i + k - Len(said)] = calls[k]

ConversationInv ==
  /\ \A i \in 1 .. Len(messages) :
       messages[i].role = "assistant" => InOrder(messages, pending, i)
  /\ pc \in {"head", "generate"} => pending = <<>>

(* A proposal carries the calls of one response.                           *)
LEMMA AssistantCalls ==
  ASSUME TypeOK, NEW i \in 1 .. Len(messages), messages[i].role = "assistant"
  PROVE  messages[i].calls \in Seq(Calls)
<1>1. messages[i] \in Message
  BY DEF TypeOK
<1>2. messages[i].calls \in Responses
  BY <1>1 DEF Message
<1> QED BY <1>2, ResponseType

(* A reply to the first pending call continues the order.                  *)
LEMMA ConversationAnswer ==
  ASSUME TypeOK, ConversationInv, pending # <<>>, NEW kind \in Kinds,
         Answer(kind)
  PROVE  ConversationInv'
<1> DEFINE n == Len(messages)
           m == Len(pending)
           reply == Reply(Head(pending), kind)
<1>1. /\ n \in Nat /\ Len(messages') = n + 1
      /\ messages'[n + 1] = reply
      /\ \A i \in 1 .. n : messages'[i] = messages[i]
  BY DEF Answer, TypeOK
<1>2. /\ m \in Nat \ {0} /\ Len(pending') = m - 1
      /\ Head(pending) = pending[1]
      /\ \A k \in 1 .. m - 1 : pending'[k] = pending[k + 1]
  BY DEF Answer, TypeOK
<1>3. reply.role = "tool" /\ reply.call = pending[1]
  BY <1>2 DEF Reply
<1>4. ASSUME NEW i \in 1 .. n, messages[i].role = "assistant"
      PROVE  InOrder(messages', pending', i)
  <2> DEFINE calls == messages[i].calls
  <2>1. calls \in Seq(Calls) /\ Len(calls) \in Nat
    BY <1>4, AssistantCalls
  <2>2. InOrder(messages, pending, i)
    BY <1>4 DEF ConversationInv
  <2>3. messages'[i].calls = calls
    BY <1>1
  <2>9. \A k \in 1 .. Len(calls) :
          IF i + k <= n
            THEN messages[i + k].role = "tool" /\ messages[i + k].call = calls[k]
            ELSE pending[i + k - n] = calls[k]
    BY <2>2 DEF InOrder
  <2>4. i + Len(calls) + 1 # n + 1
    BY <1>1, <1>2, <2>1, <2>2 DEF InOrder
  <2>5. ASSUME i + Len(calls) + 1 <= n
        PROVE  InOrder(messages', pending', i)
    <3>1. messages'[i + Len(calls) + 1].role = "assistant"
      BY <1>1, <2>1, <2>2, <2>5 DEF InOrder
    <3>2. \A k \in 1 .. Len(calls) : /\ i + k <= n
                                     /\ messages'[i + k] = messages[i + k]
      BY <1>1, <2>1, <2>5
    <3> QED BY <1>1, <2>1, <2>2, <2>3, <2>5, <3>1, <3>2 DEF InOrder
  <2>6. ASSUME i + Len(calls) + 1 > n + 1
        PROVE  InOrder(messages', pending', i)
    <3>1. i + Len(calls) + 1 = n + m + 1
      BY <1>1, <1>2, <2>1, <2>2, <2>6 DEF InOrder
    <3>2. ASSUME NEW k \in 1 .. Len(calls)
          PROVE  IF i + k <= n + 1
                   THEN messages'[i + k].role = "tool" /\ messages'[i + k].call = calls[k]
                   ELSE pending'[i + k - (n + 1)] = calls[k]
      <4>1. CASE i + k <= n
        <5>1. messages'[i + k] = messages[i + k]
          BY <1>1, <4>1
        <5>2. messages[i + k].role = "tool" /\ messages[i + k].call = calls[k]
          BY <2>9, <4>1
        <5> QED BY <1>1, <4>1, <5>1, <5>2
      <4>2. CASE i + k = n + 1
        <5>1. pending[1] = calls[k]
          BY <1>1, <2>9, <4>2
        <5> QED BY <1>1, <1>3, <4>2, <5>1
      <4>3. CASE i + k > n + 1
        <5>0. ~(i + k <= n)
          BY <1>1, <2>1, <4>3
        <5>1. pending[i + k - n] = calls[k]
          BY <2>9, <5>0
        <5>2. i + k - (n + 1) \in 1 .. m - 1
          BY <1>1, <1>2, <2>1, <3>1, <4>3
        <5>3. (i + k - (n + 1)) + 1 = i + k - n
          BY <1>1
        <5>4. pending'[i + k - (n + 1)] = calls[k]
          BY <1>2, <5>1, <5>2, <5>3
        <5> QED BY <1>1, <2>1, <4>3, <5>4
      <4> QED BY <1>1, <4>1, <4>2, <4>3
    <3>3. i + Len(calls) + 1 = (n + 1) + (m - 1) + 1
      BY <1>1, <1>2, <3>1
    <3> QED BY <1>1, <1>2, <2>1, <2>3, <2>6, <3>2, <3>3 DEF InOrder
  <2>7. \/ i + Len(calls) + 1 <= n
        \/ i + Len(calls) + 1 > n + 1
    BY <1>1, <2>1, <2>4
  <2> QED BY <2>5, <2>6, <2>7
<1>5. pc' = "call"
  BY DEF Answer
<1> QED
  BY <1>1, <1>3, <1>4, <1>5 DEF ConversationInv

(* A proposal opens a round, with its calls pending; it may have none.     *)
LEMMA ConversationPropose ==
  ASSUME TypeOK, ConversationInv, pending = <<>>, NEW calls \in Responses,
         messages' = Append(messages, Proposal(calls)), pending' = calls,
         pc' \notin {"head", "generate"}
  PROVE  ConversationInv'
<1> DEFINE n == Len(messages)
<1>1. /\ n \in Nat /\ Len(messages') = n + 1
      /\ messages'[n + 1] = Proposal(calls)
      /\ \A i \in 1 .. n : messages'[i] = messages[i]
  BY DEF TypeOK
<1>2. calls \in Seq(Calls) /\ Len(calls) \in Nat /\ Len(pending) = 0
  BY ResponseType
<1>3. InOrder(messages', pending', n + 1)
  <2>1. messages'[n + 1].calls = calls
    BY <1>1 DEF Proposal
  <2>2. \A k \in 1 .. Len(calls) :
          ~(n + 1 + k <= n + 1) /\ n + 1 + k - (n + 1) = k
    BY <1>1, <1>2
  <2> QED BY <1>1, <1>2, <2>1, <2>2 DEF InOrder
<1>4. ASSUME NEW i \in 1 .. n, messages[i].role = "assistant"
      PROVE  InOrder(messages', pending', i)
  <2>1. messages[i].calls \in Seq(Calls) /\ Len(messages[i].calls) \in Nat
    BY <1>4, AssistantCalls
  <2>2. InOrder(messages, pending, i)
    BY <1>4 DEF ConversationInv
  <2>3. i + Len(messages[i].calls) + 1 <= n + 1
    BY <1>1, <1>2, <2>1, <2>2 DEF InOrder
  <2>4. \A k \in 1 .. Len(messages[i].calls) :
          i + k <= n /\ messages'[i + k] = messages[i + k]
    BY <1>1, <2>1, <2>3
  <2>5. messages'[i + Len(messages[i].calls) + 1].role = "assistant"
    <3> PICK next \in Nat : /\ next = i + Len(messages[i].calls) + 1
                             /\ next <= n + 1
      BY <2>1, <2>3
    <3>0. next <= n => messages[next].role = "assistant"
      BY <2>2 DEF InOrder
    <3>1. next <= n => messages'[next].role = "assistant"
      <4>1. next <= n => next \in 1 .. n
        BY <1>1, <2>1
      <4> QED BY <1>1, <3>0, <4>1
    <3>2. messages'[n + 1].role = "assistant"
      BY <1>1 DEF Proposal
    <3>3. next <= n \/ next = n + 1
      BY <1>1
    <3> QED BY <3>1, <3>2, <3>3
  <2>6. messages'[i].calls = messages[i].calls
    BY <1>1
  <2>7. \A k \in 1 .. Len(messages[i].calls) :
          /\ messages[i + k].role = "tool"
          /\ messages[i + k].call = messages[i].calls[k]
    BY <2>2, <2>4 DEF InOrder
  <2>8. /\ i + Len(messages[i].calls) + 1 <= Len(messages')
        /\ \A k \in 1 .. Len(messages[i].calls) : i + k <= Len(messages')
        /\ ~(i + Len(messages[i].calls) + 1 > Len(messages'))
    BY <1>1, <2>1, <2>3
  <2>9. \A k \in 1 .. Len(messages[i].calls) :
          /\ i + k <= Len(messages')
          /\ messages'[i + k].role = "tool"
          /\ messages'[i + k].call = messages'[i].calls[k]
    BY <2>4, <2>6, <2>7, <2>8
  <2> QED BY <2>5, <2>6, <2>8, <2>9 DEF InOrder
<1>5. \A i \in 1 .. n + 1 :
        messages'[i].role = "assistant" => InOrder(messages', pending', i)
  BY <1>1, <1>3, <1>4
<1> QED
  BY <1>1, <1>5 DEF ConversationInv

(* A step that neither says anything nor takes a call off the list, and    *)
(* does not ask the model with calls pending, keeps the order.             *)
LEMMA ConversationFrame ==
  ASSUME ConversationInv, UNCHANGED <<messages, pending>>,
         pc' \in {"head", "generate"} => pending = <<>>
  PROVE  ConversationInv'
BY DEF ConversationInv, InOrder

LEMMA ConversationStep ==
  TypeInv /\ ConversationInv /\ [Next]_vars => ConversationInv'
<1> SUFFICES ASSUME TypeInv, ConversationInv, [Next]_vars
             PROVE  ConversationInv'
  OBVIOUS
<1>0. TypeOK /\ (pc \in {"ask", "execute", "tool"} => pending # <<>>)
  BY DEF TypeInv, CallOpen
<1>1. CASE UNCHANGED vars
  BY <1>1, ConversationFrame DEF vars, loop, ConversationInv
<1>2. CASE Run
  <2>1. Len(Prompt) = 2 /\ Prompt[1].role = "system" /\ Prompt[2].role = "user"
    BY DEF Prompt
  <2> QED BY <1>2, <2>1 DEF Run, ConversationInv
<1>3. CASE CancelContext
  BY <1>3, ConversationFrame DEF CancelContext, loop, ConversationInv
<1>4. ASSUME NEW configured \in BOOLEAN, SetHITLHandler(configured)
      PROVE  ConversationInv'
  BY <1>4, ConversationFrame DEF SetHITLHandler, loop
<1>5. CASE Think \/ ReturnCancelled \/ ReturnExhausted \/ GenerateFails
  <2>1. UNCHANGED <<messages, pending>> /\ pending = <<>>
    BY <1>5 DEF Think, ReturnCancelled, ReturnExhausted, GenerateFails,
                ConversationInv
  <2> QED BY <2>1, ConversationFrame
<1>6. CASE Stop \/ FinishBadly
  <2>1. /\ pending = <<>> /\ pending' = <<>> /\ pc' = "idle"
        /\ messages' = Append(messages, Proposal(<<>>))
    BY <1>6 DEF Stop, FinishBadly, Return, ConversationInv
  <2> QED BY <1>0, <2>1, ResponseType, ConversationPropose
<1>7. ASSUME NEW calls \in Responses, Propose(calls) PROVE ConversationInv'
  <2>1. pending = <<>>
    BY <1>7 DEF Propose, ConversationInv
  <2> QED BY <1>0, <1>7, <2>1, ConversationPropose DEF Propose
<1>8. CASE ParseFails \/ ToolRefuses \/ ToolFails \/ Observe
  <2>1. /\ pending # <<>>
        /\ \E kind \in Kinds : Answer(kind)
    BY <1>0, <1>8 DEF ParseFails, ToolRefuses, ToolFails, Observe, Kinds
  <2> QED BY <1>0, <2>1, ConversationAnswer
<1>9. CASE Evaluate
  <2> DEFINE d == Decision(Head(pending).action, Rules)
  <2>1. d \in Decisions /\ After(d) /\ pending # <<>>
    BY <1>9, DecisionType DEF Evaluate, Parsed
  <2>2. \/ Answer("denied") \/ Answer("escalated")
        \/ UNCHANGED <<messages, pending>> /\ pc' \in {"idle", "ask", "execute"}
    BY <2>1 DEF After, Decisions
  <2>3. "denied" \in Kinds /\ "escalated" \in Kinds
    BY DEF Kinds
  <2> QED BY <1>0, <2>1, <2>2, <2>3, ConversationAnswer, ConversationFrame
<1>10. CASE Execute
  BY <1>10, ConversationFrame DEF Execute
<1>11. CASE EndRound
  BY <1>11, ConversationFrame DEF EndRound
<1>12. ASSUME NEW d \in HandlerAnswers, HandlerReturns(d)
       PROVE  ConversationInv'
  <2>1. \/ Answer("rejected")
        \/ UNCHANGED <<messages, pending>> /\ pc' = "execute"
    BY <1>12 DEF HandlerReturns
  <2>2. pending # <<>> /\ "rejected" \in Kinds
    BY <1>0, <1>12 DEF HandlerReturns, Kinds
  <2> QED BY <1>0, <2>1, <2>2, ConversationAnswer, ConversationFrame
<1> QED
  BY <1>1, <1>2, <1>3, <1>4, <1>5, <1>6, <1>7, <1>8, <1>9, <1>10, <1>11,
     <1>12 DEF Next, Internal, Generated, ToolReturns

(* The model is asked again only when every call it made has been          *)
(* answered, once and in order.                                            *)
THEOREM AnsweredBeforeThinkingCorrect == Spec => []AnsweredBeforeThinking
<1>1. Init => ConversationInv
  BY DEF Init, ConversationInv
<1>2. TypeInv /\ ConversationInv => AnsweredBeforeThinking
  <2> SUFFICES ASSUME TypeInv, ConversationInv, pc = "generate",
                      NEW i \in 1 .. Len(messages),
                      messages[i].role = "assistant"
               PROVE  LET calls == messages[i].calls
                          next == i + Len(calls) + 1
                      IN  /\ next <= Len(messages) + 1
                          /\ \A k \in 1 .. Len(calls) :
                               /\ messages[i + k].role = "tool"
                               /\ messages[i + k].call = calls[k]
                          /\ next <= Len(messages) =>
                               messages[next].role = "assistant"
    BY DEF AnsweredBeforeThinking
  <2>1. Len(messages) \in Nat /\ Len(pending) = 0
    BY DEF TypeInv, TypeOK, ConversationInv
  <2>2. Len(messages[i].calls) \in Nat
    BY AssistantCalls DEF TypeInv
  <2>3. InOrder(messages, pending, i)
    BY DEF ConversationInv
  <2>4. i + Len(messages[i].calls) + 1 <= Len(messages) + 1
    BY <2>1, <2>2, <2>3 DEF InOrder
  <2>5. \A k \in 1 .. Len(messages[i].calls) : i + k <= Len(messages)
    BY <2>1, <2>2, <2>4
  <2> QED BY <2>3, <2>4, <2>5 DEF InOrder
<1> QED BY <1>1, <1>2, ConversationStep, TypeInvariant, PTL DEF Spec

-----------------------------------------------------------------------------
(* The audit log.                                                          *)

(* While a call is open, the last entry of the log is about it and did not *)
(* stop it.                                                                *)
OpenEntry ==
  LET entry == auditLog[Len(auditLog)]
  IN  pc \in {"ask", "execute", "tool"} =>
        /\ Len(auditLog) > 0
        /\ entry.action = Head(pending).action
        /\ entry.decision \in {"allow", "require_approval"}
        /\ pc = "ask" => entry.decision = "require_approval"

AuditInv ==
  /\ AuditMatchesReplies
  /\ OpenEntry
  /\ pc # "idle" => result = "none"

(* What a reply says agrees with the entry.                                *)
Agrees(entry, reply) ==
  /\ entry.action = reply.call.action
  /\ reply.kind = "denied" <=> entry.decision = "deny"
  /\ reply.kind = "escalated" <=> entry.decision = "escalate"
  /\ reply.kind = "rejected" => entry.decision = "require_approval"

(* The replies up to the one at position i.                                *)
UpTo(i) == {j \in Evaluated : j <= i}

LEMMA EvaluatedFinite ==
  ASSUME TypeOK
  PROVE  /\ IsFiniteSet(Evaluated) /\ Cardinality(Evaluated) \in Nat
         /\ \A i : /\ Cardinality(UpTo(i)) \in Nat
                   /\ Cardinality(UpTo(i)) <= Cardinality(Evaluated)
         /\ \A i \in Evaluated : Cardinality(UpTo(i)) # 0
<1>1. IsFiniteSet(1 .. Len(messages))
  BY FS_Interval DEF TypeOK
<1>2. IsFiniteSet(Evaluated)
  BY <1>1, FS_Subset DEF Evaluated
<1>3. ASSUME NEW i
      PROVE  /\ IsFiniteSet(UpTo(i))
             /\ Cardinality(UpTo(i)) <= Cardinality(Evaluated)
  BY <1>2, FS_Subset DEF UpTo
<1>4. ASSUME NEW i \in Evaluated PROVE Cardinality(UpTo(i)) # 0
  <2>1. i \in UpTo(i)
    BY DEF UpTo, Evaluated
  <2> QED BY <1>3, <2>1, FS_EmptySet
<1> QED BY <1>2, <1>3, <1>4, FS_CardinalityType

(* The invariant, with its entries named by number.                        *)
LEMMA AuditEntries ==
  ASSUME TypeOK
  PROVE  AuditMatchesReplies <=>
           /\ Len(auditLog) = before + Cardinality(Evaluated) + Unanswered
           /\ \A i \in Evaluated :
                Agrees(auditLog[before + Cardinality(UpTo(i))], messages[i])
BY DEF AuditMatchesReplies, EntryOf, UpTo, Agrees

(* The entry a reply belongs to is in the log.                             *)
LEMMA EntryInLog ==
  ASSUME TypeOK, AuditMatchesReplies, NEW i \in Evaluated
  PROVE  before + Cardinality(UpTo(i)) \in 1 .. Len(auditLog)
<1>1. /\ before \in Nat /\ Len(auditLog) \in Nat
      /\ Unanswered \in {0, 1}
  BY DEF TypeOK, Unanswered
<1>2. /\ Cardinality(Evaluated) \in Nat
      /\ Cardinality(UpTo(i)) \in Nat \ {0}
      /\ Cardinality(UpTo(i)) <= Cardinality(Evaluated)
  BY EvaluatedFinite
<1>3. Len(auditLog) = before + Cardinality(Evaluated) + Unanswered
  BY AuditEntries
<1> QED BY <1>1, <1>2, <1>3

(* A step that says nothing about an evaluated call, and adds an entry     *)
(* exactly when it opens a call, keeps log and replies in agreement.       *)
LEMMA AuditFrame ==
  ASSUME TypeOK, TypeOK', AuditMatchesReplies,
         Evaluated' = Evaluated,
         \A i \in Evaluated : messages'[i] = messages[i],
         before' = before,
         \A k \in 1 .. Len(auditLog) : auditLog'[k] = auditLog[k],
         Len(auditLog') = Len(auditLog) + Unanswered' - Unanswered
  PROVE  AuditMatchesReplies'
<1>1. /\ before \in Nat /\ Len(auditLog) \in Nat
      /\ Unanswered \in {0, 1} /\ Unanswered' \in {0, 1}
  BY DEF TypeOK, Unanswered
<1>2. \A i : UpTo(i)' = UpTo(i)
  BY DEF UpTo
<1>3. ASSUME NEW i \in Evaluated
      PROVE  before + Cardinality(UpTo(i)) \in 1 .. Len(auditLog)
  BY EntryInLog
<1>4. \A i \in Evaluated :
        Agrees(auditLog'[before + Cardinality(UpTo(i))], messages'[i])
  BY <1>3, AuditEntries
<1>5. Len(auditLog') = before + Cardinality(Evaluated) + Unanswered'
  <2>1. Len(auditLog) = before + Cardinality(Evaluated) + Unanswered
    BY AuditEntries
  <2>2. Cardinality(Evaluated) \in Nat
    BY EvaluatedFinite
  <2> QED BY <1>1, <2>1, <2>2
<1>6. /\ Len(auditLog') = before' + Cardinality(Evaluated') + Unanswered'
      /\ \A i \in Evaluated' :
           Agrees(auditLog'[before' + Cardinality(UpTo(i)')], messages'[i])
  BY <1>2, <1>4, <1>5
<1> QED BY <1>6 DEF AuditMatchesReplies, EntryOf, UpTo, Agrees

(* The reply to an evaluated call, with the call's entry at the end of the *)
(* log, keeps log and replies in agreement.                                *)
LEMMA AuditReply ==
  ASSUME TypeOK, TypeOK', AuditMatchesReplies,
         NEW reply \in Message,
         reply.role = "tool", reply.kind # "unparsed",
         messages' = Append(messages, reply),
         before' = before,
         \A k \in 1 .. Len(auditLog) : auditLog'[k] = auditLog[k],
         Len(auditLog') = Len(auditLog) + 1 - Unanswered,
         Unanswered' = 0,
         Agrees(auditLog'[Len(auditLog')], reply)
  PROVE  AuditMatchesReplies'
<1> DEFINE size == Cardinality(Evaluated)
<1>0. Len(messages) \in Nat /\ messages \in Seq(Message)
  BY DEF TypeOK
<1> PICK new \in Nat : new = Len(messages) + 1
  BY <1>0
<1>1. /\ before \in Nat /\ Len(auditLog) \in Nat
      /\ Unanswered \in {0, 1}
  BY DEF TypeOK, Unanswered
<1>2. /\ Len(messages) \in Nat /\ Len(messages') = new
      /\ messages'[new] = reply
      /\ \A i \in 1 .. new - 1 : messages'[i] = messages[i]
  BY <1>0
<1>3. new \notin Evaluated /\ Evaluated' = Evaluated \cup {new}
  BY <1>2 DEF Evaluated
<1>4. /\ size \in Nat
      /\ Cardinality(Evaluated') = size + 1
  <2>1. IsFiniteSet(Evaluated) /\ size \in Nat
    BY EvaluatedFinite
  <2> QED BY <1>3, <2>1, FS_AddElement
<1>5. Len(auditLog') = before + size + 1
  BY <1>1, <1>4, AuditEntries
<1>6. UpTo(new)' = Evaluated \cup {new}
  <2>1. \A j \in Evaluated' : j <= new
    BY <1>2 DEF Evaluated
  <2> QED BY <1>3, <2>1 DEF UpTo
<1>7. ASSUME NEW i \in Evaluated PROVE UpTo(i)' = UpTo(i)
  BY <1>2, <1>3 DEF UpTo, Evaluated
<1>8. ASSUME NEW i \in Evaluated
      PROVE  Agrees(auditLog'[before + Cardinality(UpTo(i)')], messages'[i])
  <2>1. before + Cardinality(UpTo(i)) \in 1 .. Len(auditLog)
    BY EntryInLog
  <2>2. messages'[i] = messages[i]
    BY <1>2 DEF Evaluated
  <2> QED BY <1>7, <2>1, <2>2, AuditEntries
<1>9. Agrees(auditLog'[before + Cardinality(UpTo(new)')], messages'[new])
  <2>1. before + Cardinality(UpTo(new)') = Len(auditLog')
    <3>1. Cardinality(UpTo(new)') = size + 1
      BY <1>3, <1>4, <1>6
    <3> QED BY <1>1, <1>4, <1>5, <3>1
  <2> QED BY <1>2, <2>1
<1>10. /\ Len(auditLog') = before' + Cardinality(Evaluated') + Unanswered'
       /\ \A i \in Evaluated' :
            Agrees(auditLog'[before' + Cardinality(UpTo(i)')], messages'[i])
  <2>1. Len(auditLog') = before' + Cardinality(Evaluated') + Unanswered'
    BY <1>1, <1>4, <1>5
  <2> QED BY <1>3, <1>8, <1>9, <2>1
<1> QED BY <1>10 DEF AuditMatchesReplies, EntryOf, UpTo, Agrees

(* The reply to an open call closes it: its entry is the last of the log.  *)
LEMMA AuditAnswer ==
  ASSUME TypeOK, TypeOK', AuditInv, pc \in {"ask", "execute", "tool"},
         pending # <<>>,
         NEW kind \in {"rejected", "tool_error", "observation"},
         Answer(kind), kind = "rejected" => pc = "ask",
         UNCHANGED <<auditLog, before, result>>
  PROVE  AuditInv'
<1> DEFINE reply == Reply(Head(pending), kind)
<1>1. result = "none" /\ Unanswered = 1
  BY DEF AuditInv, Unanswered
<1>2. pc' = "call" /\ messages' = Append(messages, reply)
  BY DEF Answer
<1>3. Unanswered' = 0
  BY <1>1, <1>2 DEF Unanswered
<1>4. reply.role = "tool" /\ reply.kind = kind /\ reply.call = Head(pending)
  BY DEF Reply
<1>5. reply \in Message
  <2>1. Head(pending) \in Calls
    BY DEF TypeOK
  <2> QED BY <2>1 DEF Reply, Message, Kinds
<1>6. Agrees(auditLog[Len(auditLog)], reply)
  BY <1>4 DEF AuditInv, OpenEntry, Agrees
<1>7. Len(auditLog') = Len(auditLog) + 1 - Unanswered
  BY <1>1 DEF TypeOK
<1>8. AuditMatchesReplies'
  BY <1>2, <1>3, <1>4, <1>5, <1>6, <1>7, AuditReply DEF AuditInv
<1> QED BY <1>1, <1>2, <1>8 DEF AuditInv, OpenEntry

(* A step that touches neither the conversation nor the log.               *)
LEMMA AuditKeeps ==
  ASSUME TypeOK, TypeOK', AuditInv,
         UNCHANGED <<messages, auditLog, before>>,
         pc' # "idle" => result' = "none",
         Unanswered' = Unanswered,
         pc' \in {"ask", "execute", "tool"} => OpenEntry'
  PROVE  AuditInv'
<1>1. Evaluated' = Evaluated
  BY DEF Evaluated
<1>2. Len(auditLog') = Len(auditLog) + Unanswered' - Unanswered
  BY DEF TypeOK, Unanswered
<1>3. AuditMatchesReplies'
  BY <1>1, <1>2, AuditFrame DEF AuditInv
<1> QED BY <1>3 DEF AuditInv, OpenEntry

(* What is not a reply to an evaluated call does not count.                *)
LEMMA AuditOther ==
  ASSUME TypeOK, TypeOK', AuditInv, NEW said \in Message,
         messages' = Append(messages, said),
         said.role = "tool" => said.kind = "unparsed",
         UNCHANGED <<auditLog, before>>,
         pc' \notin {"ask", "execute", "tool"},
         pc' # "idle" => result' = "none",
         result' # "hitl", Unanswered = 0
  PROVE  AuditInv'
<1>1. /\ Len(messages) \in Nat /\ Len(messages') = Len(messages) + 1
      /\ messages'[Len(messages) + 1] = said
      /\ \A i \in 1 .. Len(messages) : messages'[i] = messages[i]
  BY DEF TypeOK
<1>2. Evaluated' = Evaluated /\ \A i \in Evaluated : messages'[i] = messages[i]
  BY <1>1 DEF Evaluated
<1>3. Unanswered' = 0 /\ Len(auditLog') = Len(auditLog) + Unanswered' - Unanswered
  BY DEF Unanswered, TypeOK
<1>4. AuditMatchesReplies'
  BY <1>2, <1>3, AuditFrame DEF AuditInv
<1> QED BY <1>4 DEF AuditInv, OpenEntry

(* Evaluate records an entry, and answers with it what governance stops.   *)
LEMMA AuditEvaluate ==
  ASSUME TypeOK, TypeOK', AuditInv, Evaluate
  PROVE  AuditInv'
<1> DEFINE n == Len(auditLog)
           action == Head(pending).action
           d == Decision(action, Rules)
           entry == [action |-> action, decision |-> d]
<1>1. /\ n \in Nat /\ Len(auditLog') = n + 1
      /\ auditLog'[n + 1] = entry
      /\ \A k \in 1 .. n : auditLog'[k] = auditLog[k]
  <2>1. auditLog' = Append(auditLog, entry)
    BY DEF Evaluate
  <2>2. auditLog \in Seq([action : Action, decision : Decisions])
    BY DEF TypeOK
  <2> QED BY <2>1, <2>2
<1>2. /\ pc = "call" /\ result = "none" /\ Unanswered = 0
      /\ before' = before /\ pending # <<>>
  BY DEF AuditInv, Evaluate, Unanswered, history, Parsed
<1>3. d \in Decisions /\ After(d)
  BY DecisionType DEF Evaluate
<1>4. ASSUME NEW kind \in {"denied", "escalated"}, Answer(kind),
             UNCHANGED result,
             kind = "denied" <=> d = "deny", kind = "escalated" <=> d = "escalate"
      PROVE  AuditInv'
  <2> DEFINE reply == Reply(Head(pending), kind)
  <2>1. pc' = "call" /\ messages' = Append(messages, reply)
    BY <1>4 DEF Answer
  <2>2. reply.role = "tool" /\ reply.kind = kind /\ reply.call = Head(pending)
    BY DEF Reply
  <2>3. reply \in Message
    <3>1. Head(pending) \in Calls
      BY <1>2 DEF TypeOK
    <3> QED BY <3>1 DEF Reply, Message, Kinds
  <2>4. Agrees(auditLog'[Len(auditLog')], reply)
    BY <1>1, <1>4, <2>2 DEF Agrees
  <2>5. Unanswered' = 0 /\ Len(auditLog') = n + 1 - Unanswered
    BY <1>1, <1>2, <1>4, <2>1 DEF Unanswered
  <2>6. AuditMatchesReplies'
    BY <1>1, <1>2, <2>1, <2>2, <2>3, <2>4, <2>5, AuditReply DEF AuditInv
  <2> QED BY <1>2, <1>4, <2>1, <2>6 DEF AuditInv, OpenEntry
<1>5. ASSUME d \in {"allow", "require_approval"},
             UNCHANGED <<messages, pending>>,
             \/ /\ pc' \in {"ask", "execute"} /\ result' = result
                /\ pc' = "ask" => d = "require_approval"
             \/ pc' = "idle" /\ result' = "hitl"
      PROVE  AuditInv'
  <2>1. Evaluated' = Evaluated
    BY <1>5 DEF Evaluated
  <2>2. Unanswered' = 1 /\ Len(auditLog') = n + Unanswered' - Unanswered
    BY <1>1, <1>2, <1>5 DEF Unanswered
  <2>3. AuditMatchesReplies'
    BY <1>1, <1>2, <1>5, <2>1, <2>2, AuditFrame DEF AuditInv
  <2>4. OpenEntry'
    BY <1>1, <1>5 DEF OpenEntry
  <2> QED BY <1>2, <1>5, <2>3, <2>4 DEF AuditInv
<1> QED
  BY <1>2, <1>3, <1>4, <1>5 DEF After, Decisions

LEMMA AuditStep ==
  TypeInv /\ TypeInv' /\ AuditInv /\ [Next]_vars => AuditInv'
<1> SUFFICES ASSUME TypeInv, TypeInv', AuditInv, [Next]_vars
             PROVE  AuditInv'
  OBVIOUS
<1>0. /\ TypeOK /\ TypeOK'
      /\ pc \in {"ask", "execute", "tool"} => pending # <<>>
  BY DEF TypeInv, CallOpen
<1>a. pc # "idle" => result = "none"
  BY DEF AuditInv
<1>1. CASE UNCHANGED vars
  <2>1. /\ UNCHANGED <<messages, auditLog, before, pc, result, pending>>
        /\ Unanswered' = Unanswered
    BY <1>1 DEF vars, loop, history, Unanswered
  <2>2. pc' \in {"ask", "execute", "tool"} => OpenEntry'
    BY <2>1 DEF AuditInv, OpenEntry
  <2> QED BY <1>0, <1>a, <2>1, <2>2, AuditKeeps
<1>2. CASE Run
  <2>1. Evaluated' = {} /\ Unanswered' = 0
    <3>1. Len(Prompt) = 2 /\ \A i \in 1 .. 2 : Prompt[i].role # "tool"
      BY DEF Prompt
    <3> QED BY <1>2, <3>1 DEF Run, Evaluated, Unanswered
  <2>2. Cardinality(Evaluated') = 0 /\ Len(auditLog) \in Nat
    BY <1>0, <2>1, FS_EmptySet DEF TypeOK
  <2>3. AuditMatchesReplies'
    BY <1>2, <2>1, <2>2 DEF Run, AuditMatchesReplies
  <2> QED BY <1>2, <2>3 DEF Run, AuditInv, OpenEntry
<1>3. CASE CancelContext \/ \E configured \in BOOLEAN : SetHITLHandler(configured)
  <2>1. /\ UNCHANGED <<messages, auditLog, before, pc, result, pending>>
        /\ Unanswered' = Unanswered
    BY <1>3 DEF CancelContext, SetHITLHandler, loop, history, Unanswered
  <2>2. pc' \in {"ask", "execute", "tool"} => OpenEntry'
    BY <2>1 DEF AuditInv, OpenEntry
  <2> QED BY <1>0, <1>a, <2>1, <2>2, AuditKeeps
<1>4. CASE Think \/ EndRound
  <2>1. /\ UNCHANGED <<messages, auditLog, before, result>>
        /\ pc \in {"head", "call"} /\ pc' \in {"generate", "head"}
    BY <1>4 DEF Think, EndRound, history
  <2>2. Unanswered' = Unanswered
    BY <2>1 DEF Unanswered
  <2> QED BY <1>0, <1>a, <2>1, <2>2, AuditKeeps
<1>5. CASE ReturnCancelled \/ ReturnExhausted \/ GenerateFails
  <2>1. /\ UNCHANGED <<messages, auditLog, before>>
        /\ pc \in {"head", "generate"} /\ pc' = "idle"
        /\ result' # "hitl"
    BY <1>5 DEF ReturnCancelled, ReturnExhausted, GenerateFails, Return,
                history
  <2>2. Unanswered = 0 /\ Unanswered' = 0
    BY <1>a, <2>1 DEF Unanswered
  <2> QED BY <1>0, <2>1, <2>2, AuditKeeps
<1>6. CASE Stop \/ FinishBadly
  <2>1. /\ messages' = Append(messages, Proposal(<<>>))
        /\ UNCHANGED <<auditLog, before>>
        /\ pc = "generate" /\ pc' = "idle" /\ result' # "hitl"
    BY <1>6 DEF Stop, FinishBadly, Return, history
  <2>2. Proposal(<<>>) \in Message /\ Proposal(<<>>).role = "assistant"
    BY ResponseType DEF Proposal, Message
  <2>3. Unanswered = 0
    BY <1>a, <2>1 DEF Unanswered
  <2> QED BY <1>0, <2>1, <2>2, <2>3, AuditOther
<1>7. ASSUME NEW calls \in Responses, Propose(calls) PROVE AuditInv'
  <2>1. /\ messages' = Append(messages, Proposal(calls))
        /\ UNCHANGED <<auditLog, before, result>>
        /\ pc = "generate" /\ pc' = "call"
    BY <1>7 DEF Propose, history
  <2>2. Proposal(calls) \in Message /\ Proposal(calls).role = "assistant"
    BY DEF Proposal, Message
  <2>3. Unanswered = 0 /\ result = "none"
    BY <1>a, <2>1 DEF Unanswered
  <2> QED BY <1>0, <2>1, <2>2, <2>3, AuditOther
<1>8. CASE ParseFails
  <2> DEFINE said == Reply(Head(pending), "unparsed")
  <2>1. /\ messages' = Append(messages, said)
        /\ UNCHANGED <<auditLog, before, result>>
        /\ pc = "call" /\ pc' = "call" /\ pending # <<>>
    BY <1>8 DEF ParseFails, Answer, history
  <2>2. said \in Message /\ said.kind = "unparsed"
    <3>1. Head(pending) \in Calls
      BY <1>0, <2>1 DEF TypeOK
    <3> QED BY <3>1 DEF Reply, Message, Kinds
  <2>3. Unanswered = 0 /\ result = "none"
    BY <1>a, <2>1 DEF Unanswered
  <2> QED BY <1>0, <2>1, <2>2, <2>3, AuditOther
<1>9. CASE Evaluate
  BY <1>0, <1>9, AuditEvaluate
<1>10. CASE ToolRefuses \/ ToolFails \/ Observe
  <2>1. /\ pc \in {"ask", "execute", "tool"}
        /\ Answer("tool_error") \/ Answer("observation")
        /\ UNCHANGED <<auditLog, before, result>>
    BY <1>10 DEF ToolRefuses, ToolFails, Observe, history
  <2> QED BY <1>0, <2>1, AuditAnswer
<1>11. CASE Execute
  <2>1. /\ UNCHANGED <<messages, auditLog, before, pending, result>>
        /\ pc = "execute" /\ pc' = "tool"
    BY <1>11 DEF Execute
  <2>2. Unanswered' = Unanswered
    BY <2>1 DEF Unanswered
  <2>3. OpenEntry'
    BY <2>1 DEF AuditInv, OpenEntry
  <2> QED BY <1>0, <1>a, <2>1, <2>2, <2>3, AuditKeeps
<1>12. ASSUME NEW d \in HandlerAnswers, HandlerReturns(d) PROVE AuditInv'
  <2>1. CASE d = "deny"
    <3>1. /\ pc = "ask" /\ Answer("rejected")
          /\ UNCHANGED <<auditLog, before, result>>
      BY <1>12, <2>1 DEF HandlerReturns
    <3> QED BY <1>0, <3>1, AuditAnswer
  <2>2. CASE d # "deny"
    <3>1. /\ UNCHANGED <<messages, auditLog, before, pending, result>>
          /\ pc = "ask" /\ pc' = "execute"
      BY <1>12, <2>2 DEF HandlerReturns
    <3>2. Unanswered' = Unanswered
      BY <3>1 DEF Unanswered
    <3>3. OpenEntry'
      BY <3>1 DEF AuditInv, OpenEntry
    <3> QED BY <1>0, <1>a, <3>1, <3>2, <3>3, AuditKeeps
  <2> QED BY <2>1, <2>2
<1> QED
  BY <1>1, <1>2, <1>3, <1>4, <1>5, <1>6, <1>7, <1>8, <1>9, <1>10, <1>11,
     <1>12 DEF Next, Internal, Generated, ToolReturns

(* Before the first run there is nothing to agree on.                      *)
LEMMA AuditInit == Init => AuditInv
<1> SUFFICES ASSUME Init PROVE AuditInv
  OBVIOUS
<1>1. Evaluated = {} /\ Unanswered = 0
  BY DEF Init, Evaluated, Unanswered
<1>2. Cardinality(Evaluated) = 0
  BY <1>1, FS_EmptySet
<1>3. AuditMatchesReplies
  BY <1>1, <1>2 DEF Init, AuditMatchesReplies
<1> QED BY <1>3 DEF Init, AuditInv, OpenEntry

(* What the model is told of its calls agrees with the audit log, entry    *)
(* for entry.                                                              *)
THEOREM AuditMatchesRepliesCorrect == Spec => []AuditMatchesReplies
<1>1. AuditInv => AuditMatchesReplies
  BY DEF AuditInv
<1> QED BY <1>1, AuditInit, AuditStep, TypeInvariant, PTL DEF Spec

-----------------------------------------------------------------------------
(* From the decision to the tool.                                          *)

(* The audit log holds the decisions of Evaluate.                          *)
LogDecided ==
  \A i \in 1 .. Len(auditLog) :
    auditLog[i].decision = Decision(auditLog[i].action, Rules)

(* Nothing any stage objects to.                                           *)
Unobjectionable(a) ==
  /\ WellFormed(a) /\ Risk(a) # Critical
  /\ PolicyPasses(a, Rules) /\ InBoundary(a)
  /\ a.timeout # "beyond" /\ ~Intensive(a)

(* What a tool has executed passed all five stages, and a command of the   *)
(* shell or a deletion also a person; what it is executing is what the     *)
(* last entry of the log is about.                                         *)
ExecutesSafely ==
  /\ \A k \in 1 .. Len(executed) :
       LET a == auditLog[executed[k]].action
       IN  /\ Unobjectionable(a)
           /\ a.type \in {"shell", "file_delete"} =>
                \E i \in 1 .. Len(approvals) :
                  approvals[i][1] = executed[k] /\ approvals[i][2] # "deny"
  /\ pc = "tool" =>
       /\ executed # <<>> /\ executed[Len(executed)] = Len(auditLog)
       /\ auditLog[Len(auditLog)].action = Head(pending).action

(* Every entry of the log is about an action.                              *)
LEMMA LogType ==
  ASSUME TypeOK, NEW i \in 1 .. Len(auditLog)
  PROVE  auditLog[i].action \in Action
<1> DEFINE Entry == [action : Action, decision : Decisions]
<1>1. auditLog \in Seq(Entry)
  BY DEF TypeOK
<1>2. auditLog[i] \in Entry
  <2> HIDE DEF Entry
  <2> QED BY <1>1
<1> QED BY <1>2

(* What Evaluate lets through, no stage objects to; what can run a command *)
(* or delete a file it lets through only to a person.                      *)
LEMMA DecisionStops ==
  ASSUME NEW b \in Action, Decision(b, Rules) \in {"allow", "require_approval"}
  PROVE  /\ Unobjectionable(b)
         /\ b.type \in {"shell", "file_delete"} =>
              Decision(b, Rules) = "require_approval"
<1> DEFINE s == Stages(b, Rules)
<1>1. /\ s[1].passed <=> WellFormed(b)
      /\ s[2].passed <=> (Risk(b) # Critical)
      /\ s[3].passed <=> PolicyPasses(b, Rules)
      /\ s[4].passed <=> InBoundary(b)
      /\ s[5].passed <=> (b.timeout # "beyond" /\ ~Intensive(b))
      /\ s[2].risk = Risk(b)
  BY DEF Stages, Stage
<1>2. \A i \in {1, 2, 3, 4, 5} : s[i].passed
  BY DEF Decision
<1>3. Unobjectionable(b)
  BY <1>1, <1>2 DEF Unobjectionable
<1>4. ASSUME b.type \in {"shell", "file_delete"}
      PROVE  Decision(b, Rules) = "require_approval"
  <2>1. Risk(b) >= High
    BY <1>4 DEF Risk, Low, Medium, High, Critical
  <2>2. \E i \in 1 .. 5 : s[i].risk >= High
    BY <1>1, <2>1
  <2>3. Decision(b, Rules) = MakeDecision(s)
    BY <1>2 DEF Decision
  <2> QED BY <2>2, <2>3 DEF MakeDecision
<1> QED BY <1>3, <1>4

(* Only Evaluate writes to the log.                                        *)
LEMMA LogDecidedStep == TypeOK /\ LogDecided /\ [Next]_vars => LogDecided'
<1> SUFFICES ASSUME TypeOK, LogDecided, [Next]_vars PROVE LogDecided'
  OBVIOUS
<1>1. CASE Evaluate
  <2> DEFINE n == Len(auditLog)
             action == Head(pending).action
             entry == [action |-> action, decision |-> Decision(action, Rules)]
  <2>1. auditLog' = Append(auditLog, entry)
    BY <1>1 DEF Evaluate
  <2>2. /\ n \in Nat /\ Len(auditLog') = n + 1
        /\ auditLog'[n + 1] = entry
        /\ \A i \in 1 .. n : auditLog'[i] = auditLog[i]
    BY <2>1 DEF TypeOK
  <2>3. ASSUME NEW i \in 1 .. n + 1
        PROVE  auditLog'[i].decision = Decision(auditLog'[i].action, Rules)
    <3>1. CASE i = n + 1
      BY <2>2, <3>1
    <3>2. CASE i \in 1 .. n
      BY <2>2, <3>2 DEF LogDecided
    <3> QED BY <2>2, <3>1, <3>2
  <2> QED BY <2>2, <2>3 DEF LogDecided
<1>2. CASE ~Evaluate
  <2>1. UNCHANGED auditLog
    BY <1>2 DEF Next, vars, loop, Run, CancelContext, SetHITLHandler, Internal,
                Generated, ToolReturns, Think, ReturnCancelled, ReturnExhausted,
                GenerateFails, Stop, FinishBadly, Propose, ParseFails,
                ToolRefuses, Execute, ToolFails, Observe, EndRound,
                HandlerReturns
  <2> QED BY <2>1 DEF LogDecided
<1> QED BY <1>1, <1>2

(* While a tool runs, its execution is the last one noted.                 *)
ToolNoted ==
  pc = "tool" =>
    /\ Len(executed) > 0
    /\ executed[Len(executed)] = Len(auditLog)

(* Only Execute starts a tool.                                             *)
LEMMA ToolNotedStep == TypeOK /\ ToolNoted /\ [Next]_vars => ToolNoted'
<1> SUFFICES ASSUME TypeOK, ToolNoted, [Next]_vars, pc' = "tool"
             PROVE  /\ Len(executed') > 0
                    /\ executed'[Len(executed')] = Len(auditLog')
  BY DEF ToolNoted
<1>1. CASE Execute
  <2>1. /\ executed \in Seq(Nat) /\ executed' = Append(executed, Len(auditLog))
        /\ auditLog' = auditLog
    BY <1>1 DEF TypeOK, Execute
  <2> QED BY <2>1
<1>2. CASE ~Execute
  <2>1. ~Evaluate
    <3> SUFFICES ASSUME Evaluate PROVE FALSE
      OBVIOUS
    <3>1. PICK d \in Decisions : After(d)
      BY DecisionType DEF Evaluate
    <3> QED BY <3>1 DEF After, Answer, Decisions
  <2>2. ~Generated
    BY DEF Generated, GenerateFails, Stop, FinishBadly, Propose, Return
  <2>3. ~ToolReturns
    BY DEF ToolReturns, ToolFails, Observe, Answer
  <2>4. ~Internal
    BY <1>2, <2>1 DEF Internal, Think, ReturnCancelled, ReturnExhausted,
                      Return, ParseFails, Answer, ToolRefuses, EndRound
  <2>5. ~Run /\ ~(\E d \in HandlerAnswers : HandlerReturns(d))
    BY DEF Run, HandlerReturns, Answer
  <2>6. UNCHANGED <<pc, executed, auditLog>>
    BY <2>2, <2>3, <2>4, <2>5
       DEF Next, CancelContext, SetHITLHandler, vars, loop, history
  <2> QED BY <2>6 DEF ToolNoted
<1> QED BY <1>1, <1>2

(* Governance and the loop together: whatever the model proposes, no tool  *)
(* executes an action that a stage of Evaluate objects to, and none runs a *)
(* command or deletes a file without a person's consent.                   *)
THEOREM ExecutesSafelyCorrect == Spec => []ExecutesSafely
<1>1. Init => LogDecided /\ ToolNoted /\ AuditInv /\ GateInv
  <2> SUFFICES ASSUME Init PROVE LogDecided /\ ToolNoted /\ AuditInv /\ GateInv
    OBVIOUS
  <2>1. AuditInv
    BY AuditInit
  <2> QED BY <2>1 DEF Init, LogDecided, ToolNoted, GateInv, Gated, AtGate
<1>2. TypeInv /\ LogDecided /\ ToolNoted /\ AuditInv /\ GateInv
        => ExecutesSafely
  <2> SUFFICES ASSUME TypeInv, LogDecided, ToolNoted, AuditInv, GateInv
               PROVE  ExecutesSafely
    OBVIOUS
  <2>1. ASSUME NEW k \in 1 .. Len(executed)
        PROVE  LET a == auditLog[executed[k]].action
               IN  /\ Unobjectionable(a)
                   /\ a.type \in {"shell", "file_delete"} =>
                        \E i \in 1 .. Len(approvals) :
                          approvals[i][1] = executed[k] /\ approvals[i][2] # "deny"
    <3> DEFINE entry == auditLog[executed[k]]
    <3>1. executed[k] \in 1 .. Len(auditLog) /\ LetThrough(executed[k])
      BY DEF GateInv, Gated
    <3>2. entry.action \in Action
      <4>1. \A i \in 1 .. Len(auditLog) : auditLog[i].action \in Action
        BY LogType DEF TypeInv
      <4> QED BY <3>1, <4>1, Zenon
    <3>3. entry.decision = Decision(entry.action, Rules)
      BY <3>1, Zenon DEF LogDecided
    <3>4. entry.decision \in {"allow", "require_approval"}
      BY <3>1 DEF LetThrough
    <3>5. /\ Unobjectionable(entry.action)
          /\ entry.action.type \in {"shell", "file_delete"} =>
               entry.decision = "require_approval"
      BY <3>2, <3>3, <3>4, DecisionStops
    <3> QED BY <3>1, <3>5 DEF LetThrough
  <2>2. pc = "tool" =>
          /\ executed # <<>> /\ executed[Len(executed)] = Len(auditLog)
          /\ auditLog[Len(auditLog)].action = Head(pending).action
    BY DEF ToolNoted, AuditInv, OpenEntry
  <2> QED BY <2>1, <2>2 DEF ExecutesSafely
<1>3. TypeInv /\ GateInv /\ [Next]_vars => GateInv'
  BY GateStep DEF TypeInv
<1>4. TypeInv /\ LogDecided /\ ToolNoted /\ [Next]_vars
        => LogDecided' /\ ToolNoted'
  BY LogDecidedStep, ToolNotedStep DEF TypeInv
<1> QED BY <1>1, <1>2, <1>3, <1>4, AuditStep, TypeInvariant, PTL DEF Spec
=============================================================================
