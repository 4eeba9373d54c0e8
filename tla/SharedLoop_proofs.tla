-------------------------- MODULE SharedLoop_proofs --------------------------
(* Proofs about SharedLoop, for any tasks, calls, verdicts and bounds.     *)
EXTENDS SharedLoop, TLAPS

(* A racing append mixes what was there and what is added, nothing else.   *)
LEMMA AppendedSubset ==
  ASSUME NEW S, NEW read, read \subseteq S, NEW now, now \subseteq S,
         NEW mine, mine \subseteq S, NEW new \in Appended(read, now, mine)
  PROVE  new \subseteq S
<1>1. CASE now = read
  BY <1>1 DEF Appended
<1>2. CASE now # read
  <2>1. new \in SUBSET (read \cup now \cup mine)
    BY <1>2 DEF Appended
  <2> QED BY <2>1
<1> QED BY <1>1, <1>2

(* Every variable of SharedLoop keeps its type.                            *)
THEOREM TypeCorrect == Spec => []TypeOK
<1>1. Init => TypeOK
  BY BoundsAssumption DEF Init, TypeOK, Pcs, NoResult
<1>2. TypeOK /\ [Next]_vars => TypeOK'
  <2> SUFFICES ASSUME TypeOK, [Next]_vars PROVE TypeOK'
    OBVIOUS
  <2> USE BoundsAssumption DEF TypeOK, Pcs, Goto, Set
  <2>1. CASE UNCHANGED vars
    BY <2>1 DEF vars, shared, local
  <2>2. ASSUME NEW t \in Tasks, Begin(t) PROVE TypeOK'
    BY <2>2 DEF Begin, local
  <2>3. ASSUME NEW t \in Tasks, Cancel(t) PROVE TypeOK'
    BY <2>3 DEF Cancel, local, shared
  <2>4. ASSUME NEW t \in Tasks, Think(t) PROVE TypeOK'
    BY <2>4 DEF Think, shared
  <2> DEFINE ResultType ==
        [Tasks -> [outcome : Outcomes \cup {"none"}, audit : SUBSET Tasks]]
  <2>0. ASSUME NEW t \in Tasks, NEW o \in Outcomes, Return(t, o)
        PROVE  pc' \in [Tasks -> Pcs] /\ result' \in ResultType
    BY <2>0 DEF Return
  <2>5. ASSUME NEW t \in Tasks, GiveUp(t) PROVE TypeOK'
    <3>1. Return(t, "exhausted") \/ Return(t, "cancelled")
      BY <2>5 DEF GiveUp
    <3>2. pc' \in [Tasks -> Pcs] /\ result' \in ResultType
      BY <3>1, <2>0 DEF Outcomes
    <3> QED BY <2>5, <3>2 DEF GiveUp, shared
  <2>6. ASSUME NEW t \in Tasks, GenerateFails(t) PROVE TypeOK'
    <3>1. Return(t, "failed")
      BY <2>6 DEF GenerateFails
    <3>2. pc' \in [Tasks -> Pcs] /\ result' \in ResultType
      BY <3>1, <2>0 DEF Outcomes
    <3> QED BY <2>6, <3>2 DEF GenerateFails, shared
  <2>7. ASSUME NEW t \in Tasks, NEW finish \in {"stop", "bad", "calls"},
               NEW n \in 0 .. MaxCalls, Respond(t, finish, n)
        PROVE  TypeOK'
    BY <2>7 DEF Respond, shared
  <2>8. ASSUME NEW t \in Tasks, AppendMessage(t)
        PROVE  messages' \subseteq Tasks /\ snapshot' \in [Tasks -> SUBSET Tasks]
    <3>1. messages' \subseteq Tasks
      BY <2>8, AppendedSubset DEF AppendMessage
    <3>2. snapshot' \in [Tasks -> SUBSET Tasks]
      BY <2>8 DEF AppendMessage
    <3> QED BY <3>1, <3>2
  <2>9. ASSUME NEW t \in Tasks, Stop(t) PROVE TypeOK'
    <3>1. Return(t, "text") \/ Return(t, "failed")
      BY <2>9 DEF Stop
    <3>2. pc' \in [Tasks -> Pcs] /\ result' \in ResultType
      BY <3>1, <2>0 DEF Outcomes
    <3>3. messages' \subseteq Tasks /\ snapshot' \in [Tasks -> SUBSET Tasks]
      BY <2>9, <2>8 DEF Stop
    <3> QED BY <2>9, <3>2, <3>3 DEF Stop
  <2>10. ASSUME NEW t \in Tasks, Propose(t) PROVE TypeOK'
    BY <2>10, <2>8 DEF Propose
  <2>11. ASSUME NEW t \in Tasks, NEW c \in Calls, Evaluate(t, c) PROVE TypeOK'
    BY <2>11 DEF Evaluate, shared
  <2>12. ASSUME NEW t \in Tasks, ParseFails(t) PROVE TypeOK'
    BY <2>12 DEF ParseFails, shared
  <2>13. ASSUME NEW t \in Tasks, RecordAudit(t) PROVE TypeOK'
    <3>1. auditLog' \subseteq Tasks
      BY <2>13, AppendedSubset DEF RecordAudit
    <3>2. pc' \in [Tasks -> Pcs] /\ result' \in ResultType
      <4>1. CASE Return(t, "hitl")
        BY <4>1, <2>0 DEF Outcomes
      <4>2. CASE UNCHANGED result /\ (Goto(t, "tool") \/ Goto(t, "reply"))
        BY <4>2
      <4> QED BY <2>13, <4>1, <4>2 DEF RecordAudit, Decide
    <3>3. snapshot' \in [Tasks -> SUBSET Tasks]
      BY <2>13 DEF RecordAudit
    <3> QED BY <2>13, <3>1, <3>2, <3>3 DEF RecordAudit
  <2>14. ASSUME NEW t \in Tasks, ToolReturns(t) PROVE TypeOK'
    BY <2>14 DEF ToolReturns, local, shared
  <2>15. ASSUME NEW t \in Tasks, Reply(t) PROVE TypeOK'
    BY <2>15 DEF Reply, shared
  <2>16. ASSUME NEW t \in Tasks, Answer(t) PROVE TypeOK'
    BY <2>16, <2>8 DEF Answer
  <2>17. ASSUME NEW t \in Tasks, ReadIterations(t) PROVE TypeOK'
    BY <2>17 DEF ReadIterations, shared
  <2>18. ASSUME NEW t \in Tasks, WriteIterations(t) PROVE TypeOK'
    BY <2>18 DEF WriteIterations
  <2>19. ASSUME NEW t \in Tasks, Report(t) PROVE TypeOK'
    <3>1. result' \in ResultType
      <4> SUFFICES ASSUME NEW u \in Tasks
                   PROVE  result'[u] \in [outcome : Outcomes \cup {"none"},
                                          audit : SUBSET Tasks]
        BY <2>19 DEF Report
      <4> QED BY <2>19 DEF Report
    <3> QED BY <2>19, <3>1 DEF Report, shared
  <2> QED
    BY <2>1, <2>2, <2>3, <2>4, <2>5, <2>6, <2>7, <2>9, <2>10, <2>11, <2>12,
       <2>13, <2>14, <2>15, <2>16, <2>17, <2>18, <2>19
    DEF Next, Internal, Generated
<1> QED BY <1>1, <1>2, PTL DEF Spec

-----------------------------------------------------------------------------
(* The counter.                                                            *)

(* A run that is exhausted was so before, or finds the counter at the      *)
(* limit.                                                                  *)
OutcomesKept ==
  \A t \in Tasks :
    result'[t].outcome = "exhausted" =>
      result[t].outcome = "exhausted" \/ iterations >= MaxIterations

(* Steps that touch neither the counter nor an increment under way.        *)
Aside ==
  /\ UNCHANGED <<iterations, count, rounds>>
  /\ \A t \in Tasks : pc'[t] = "increment" => pc[t] = "increment"
  /\ OutcomesKept

LEMMA Returns ==
  ASSUME TypeOK, NEW t \in Tasks, NEW o, Return(t, o),
         o = "exhausted" => iterations >= MaxIterations
  PROVE  OutcomesKept
<1> SUFFICES ASSUME NEW u \in Tasks, result'[u].outcome = "exhausted"
             PROVE  \/ result[u].outcome = "exhausted"
                    \/ iterations >= MaxIterations
  BY DEF OutcomesKept
<1>1. CASE u = t
  BY <1>1 DEF Return, TypeOK
<1>2. CASE u # t
  BY <1>2 DEF Return, TypeOK
<1> QED BY <1>1, <1>2

LEMMA NoReturn ==
  ASSUME UNCHANGED result
  PROVE  OutcomesKept
BY DEF OutcomesKept

LEMMA AsideForm ==
  ASSUME TypeOK, NEW t \in Tasks, NEW place, Goto(t, place), place # "increment",
         UNCHANGED <<iterations, count, rounds>>, OutcomesKept
  PROVE  Aside
BY DEF TypeOK, Goto, Aside

LEMMA StepForms ==
  ASSUME TypeOK, [Next]_vars
  PROVE  \/ Aside
         \/ \E t \in Tasks : ReadIterations(t) \/ WriteIterations(t)
<1>1. CASE UNCHANGED vars
  BY <1>1, NoReturn DEF vars, shared, local, Aside
<1>2. ASSUME NEW t \in Tasks, Cancel(t) PROVE Aside
  BY <1>2, NoReturn DEF Cancel, shared, local, Aside
<1>3. ASSUME NEW t \in Tasks, Begin(t) \/ Think(t) \/ ToolReturns(t) PROVE Aside
  BY <1>3, NoReturn, AsideForm DEF Begin, Think, ToolReturns, shared, local
<1>4. ASSUME NEW t \in Tasks,
             Propose(t) \/ ParseFails(t) \/ Reply(t) \/ Answer(t)
      PROVE  Aside
  BY <1>4, NoReturn, AsideForm DEF Propose, ParseFails, Reply, Answer, shared
<1>5. ASSUME NEW t \in Tasks, GiveUp(t) PROVE Aside
  <2>1. PICK o \in {"exhausted", "cancelled"} :
          Return(t, o) /\ (o = "exhausted" => iterations >= MaxIterations)
    BY <1>5 DEF GiveUp
  <2>2. OutcomesKept
    BY <2>1, Returns
  <2> QED BY <1>5, <2>1, <2>2, AsideForm DEF GiveUp, Return, shared
<1>6. ASSUME NEW t \in Tasks, GenerateFails(t) \/ Stop(t) PROVE Aside
  <2>1. PICK o \in {"failed", "text"} : Return(t, o)
    BY <1>6 DEF GenerateFails, Stop
  <2>2. OutcomesKept
    BY <2>1, Returns
  <2> QED BY <1>6, <2>1, <2>2, AsideForm DEF GenerateFails, Stop, Return, shared
<1>7. ASSUME NEW t \in Tasks, NEW finish \in {"stop", "bad", "calls"},
             NEW n \in 0 .. MaxCalls, Respond(t, finish, n)
      PROVE  Aside
  BY <1>7, NoReturn, AsideForm DEF Respond, shared
<1>8. ASSUME NEW t \in Tasks, RecordAudit(t) PROVE Aside
  <2>1. Decide(t) /\ UNCHANGED <<iterations, count, rounds>>
    BY <1>8 DEF RecordAudit
  <2>2. CASE Return(t, "hitl")
    <3>1. OutcomesKept
      BY <2>2, Returns
    <3> QED BY <2>1, <2>2, <3>1, AsideForm DEF Return
  <2>3. CASE UNCHANGED result /\ (Goto(t, "tool") \/ Goto(t, "reply"))
    BY <2>1, <2>3, NoReturn, AsideForm
  <2> QED BY <2>1, <2>2, <2>3 DEF Decide
<1>9. ASSUME NEW t \in Tasks, Report(t) PROVE Aside
  <2>1. \A u \in Tasks : result'[u].outcome = result[u].outcome
    BY <1>9 DEF Report, TypeOK
  <2>2. OutcomesKept
    BY <2>1 DEF OutcomesKept
  <2> QED BY <1>9, <2>2, AsideForm DEF Report, shared
<1>10. ASSUME NEW t \in Tasks, NEW c \in Calls, Evaluate(t, c) PROVE Aside
  BY <1>10, NoReturn, AsideForm DEF Evaluate, shared
<1> QED
  BY <1>1, <1>2, <1>3, <1>4, <1>5, <1>6, <1>7, <1>8, <1>9, <1>10
     DEF Next, Internal, Generated

(* No step lets the floor under the counter fall.                          *)
LEMMA FloorStep ==
  ASSUME TypeOK, [Next]_vars, NEW k \in Nat, AtLeast(k)
  PROVE  AtLeast(k)'
<1>1. CASE Aside
  BY <1>1 DEF Aside, AtLeast
<1>2. ASSUME NEW t \in Tasks, ReadIterations(t) PROVE AtLeast(k)'
  <2>1. iterations' >= k
    BY <1>2 DEF ReadIterations, shared, AtLeast
  <2>2. ASSUME NEW u \in Tasks, pc'[u] = "increment" PROVE count'[u] + 1 >= k
    BY <1>2, <2>2 DEF ReadIterations, Goto, Set, AtLeast, TypeOK
  <2> QED BY <2>1, <2>2 DEF AtLeast
<1>3. ASSUME NEW t \in Tasks, WriteIterations(t) PROVE AtLeast(k)'
  <2>1. iterations' >= k
    BY <1>3 DEF WriteIterations, AtLeast, TypeOK
  <2>2. ASSUME NEW u \in Tasks, pc'[u] = "increment" PROVE count'[u] + 1 >= k
    BY <1>3, <2>2 DEF WriteIterations, Goto, Set, AtLeast, TypeOK
  <2> QED BY <2>1, <2>2 DEF AtLeast
<1> QED BY <1>1, <1>2, <1>3, StepForms

(* The floor under the counter never falls.                                *)
THEOREM BudgetFloorCorrect == Spec => BudgetFloor
<1>1. TypeOK /\ [Next]_vars
        => [\A k \in 0 .. iterations : AtLeast(k) => AtLeast(k)']_vars
  <2> SUFFICES ASSUME TypeOK, [Next]_vars, NEW k \in 0 .. iterations, AtLeast(k)
               PROVE  AtLeast(k)'
    OBVIOUS
  <2>1. k \in Nat
    BY DEF TypeOK
  <2> QED BY <2>1, FloorStep
<1> QED BY <1>1, TypeCorrect, PTL DEF Spec, BudgetFloor

(* The counter, and every value a goroutine is about to increment, are at  *)
(* most the number of rounds.                                              *)
EarnedInv ==
  /\ iterations <= rounds
  /\ \A t \in Tasks : pc[t] = "increment" => count[t] <= rounds
  /\ ExhaustionIsEarned

LEMMA EarnedStep == TypeOK /\ EarnedInv /\ [Next]_vars => EarnedInv'
<1> SUFFICES ASSUME TypeOK, EarnedInv, [Next]_vars PROVE EarnedInv'
  OBVIOUS
<1> USE BoundsAssumption DEF EarnedInv
<1>1. CASE Aside
  <2>1. iterations' <= rounds'
        /\ \A t \in Tasks : pc'[t] = "increment" => count'[t] <= rounds'
    BY <1>1 DEF Aside
  <2>2. ASSUME NEW t \in Tasks, result'[t].outcome = "exhausted"
        PROVE  rounds' >= MaxIterations
    BY <1>1, <2>2 DEF Aside, OutcomesKept, ExhaustionIsEarned, TypeOK
  <2> QED BY <2>1, <2>2 DEF ExhaustionIsEarned
<1>2. ASSUME NEW t \in Tasks, ReadIterations(t) PROVE EarnedInv'
  <2>1. UNCHANGED <<iterations, rounds, result>>
    BY <1>2 DEF ReadIterations, shared
  <2>2. ASSUME NEW u \in Tasks, pc'[u] = "increment" PROVE count'[u] <= rounds
    BY <1>2, <2>2 DEF ReadIterations, Goto, Set, TypeOK
  <2> QED BY <2>1, <2>2 DEF ExhaustionIsEarned
<1>3. ASSUME NEW t \in Tasks, WriteIterations(t) PROVE EarnedInv'
  <2>1. rounds' = rounds + 1 /\ iterations' = count[t] + 1 /\ UNCHANGED result
    BY <1>3 DEF WriteIterations
  <2>2. ASSUME NEW u \in Tasks, pc'[u] = "increment" PROVE count'[u] <= rounds
    BY <1>3, <2>2 DEF WriteIterations, Goto, Set, TypeOK
  <2>3. count[t] <= rounds /\ count[t] \in Nat /\ rounds \in Nat
    BY <1>3 DEF WriteIterations, TypeOK
  <2>4. ASSUME NEW u \in Tasks, pc'[u] = "increment" PROVE count'[u] <= rounds'
    <3>1. count'[u] \in Nat
      BY <1>3 DEF WriteIterations, Set, TypeOK
    <3> QED BY <2>1, <2>2, <2>3, <2>4, <3>1
  <2>5. ASSUME NEW u \in Tasks, result'[u].outcome = "exhausted"
        PROVE  rounds' >= MaxIterations
    BY <2>1, <2>3, <2>5 DEF ExhaustionIsEarned
  <2>6. iterations' <= rounds'
    BY <2>1, <2>3
  <2> QED BY <2>4, <2>5, <2>6 DEF ExhaustionIsEarned
<1> QED BY <1>1, <1>2, <1>3, StepForms

(* No run is told that the limit is exceeded before as many rounds were    *)
(* completed.                                                              *)
THEOREM ExhaustionIsEarnedCorrect == Spec => []ExhaustionIsEarned
<1>1. Init => EarnedInv
  BY DEF Init, EarnedInv, ExhaustionIsEarned, NoResult
<1>2. EarnedInv => ExhaustionIsEarned
  BY DEF EarnedInv
<1> QED BY <1>1, <1>2, EarnedStep, TypeCorrect, PTL DEF Spec
=============================================================================
