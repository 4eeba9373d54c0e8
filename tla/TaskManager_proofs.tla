------------------------- MODULE TaskManager_proofs -------------------------
(***************************************************************************)
(* Proofs about TaskManager, for any set of clients and any number of      *)
(* tasks.                                                                  *)
(***************************************************************************)
EXTENDS TaskManager, FiniteSetTheorems, TLAPS

(* The type invariant is preserved by every step of the TaskManager.       *)
LEMMA TypeStep == TypeOK /\ Coherent /\ [Next]_vars => TypeOK'
<1> SUFFICES ASSUME TypeOK, Coherent, [Next]_vars PROVE TypeOK'
  OBVIOUS
<1> USE MaxTasksAssumption, WaitAloneAssumption
<1> USE DEF TypeOK, Ids, Kinds, Outcomes, Terminal, Statuses, Task, NewTask,
            SubmitSteps, WaitSteps, RunnerSteps
<1>1. ASSUME NEW c \in Clients, NEW k \in Kinds, NextID(c, k) PROVE TypeOK'
  BY <1>1 DEF NextID, NewId, ClientStep
<1>2. ASSUME NEW c \in Clients, Register(c) PROVE TypeOK'
  <2>1. cur[c] \in Ids
    BY <1>2 DEF Register, ClientStep, Coherent, SubmitCoherent
  <2> QED
    BY <1>2, <2>1 DEF Register, ClientStep, runnerVars
<1>3. ASSUME NEW c \in Clients, AddToGroup(c) PROVE TypeOK'
  BY <1>3 DEF AddToGroup, ClientStep, runnerVars
<1>4. ASSUME NEW c \in Clients, Spawn(c) PROVE TypeOK'
  <2>1. pc' \in [Clients -> {"idle", "panicked"} \cup SubmitSteps \cup WaitSteps]
    BY <1>4 DEF Spawn, ClientStep
  <2>2. cur' \in [Clients -> 0 .. MaxTasks]
    BY <1>4 DEF Spawn, ClientStep
  <2>3. runner' \in [Ids -> {"none", "spawned", "done"} \cup RunnerSteps]
    BY <1>4 DEF Spawn, ClientStep
  <2> QED
    BY <1>4, <2>1, <2>2, <2>3 DEF Spawn
<1>5. ASSUME NEW c \in Clients, NEW id \in Ids, Cancel(c, id) PROVE TypeOK'
  BY <1>5 DEF Cancel, clientVars, runnerVars
<1>6. ASSUME NEW c \in Clients, WaitCall(c) PROVE TypeOK'
  BY <1>6 DEF WaitCall, ClientStep, Submitted, runnerVars
<1>7. ASSUME NEW c \in Clients, WaitLoad(c) PROVE TypeOK'
  BY <1>7 DEF WaitLoad, ClientStep, runnerVars
<1>8. ASSUME NEW c \in Clients, WaitWake(c) PROVE TypeOK'
  BY <1>8 DEF WaitWake, ClientStep, runnerVars
<1>9. ASSUME NEW id \in Ids, Start(id) PROVE TypeOK'
  BY <1>9 DEF Start, RunnerStep, UpdateTask, clientVars
<1>10. ASSUME NEW id \in Ids, NEW o \in Outcomes, FnReturn(id, o) PROVE TypeOK'
  BY <1>10 DEF FnReturn, RunnerStep, clientVars
<1>11. ASSUME NEW id \in Ids, Decide(id) PROVE TypeOK'
  BY <1>11 DEF Decide, RunnerStep, FinalStatus, clientVars
<1>12. ASSUME NEW id \in Ids, Update(id) PROVE TypeOK'
  <2>1. verdict[id] \in Terminal
    BY <1>12
       DEF Update, RunnerStep, Coherent, VerdictCoherent, Decided, Returned
  <2> QED
    BY <1>12, <2>1 DEF Update, RunnerStep, UpdateTask, clientVars
<1>13. ASSUME NEW id \in Ids, CleanUp(id) PROVE TypeOK'
  BY <1>13 DEF CleanUp, RunnerStep, clientVars
<1>14. ASSUME NEW id \in Ids, Done(id) PROVE TypeOK'
  BY <1>14 DEF Done, GroupDone, RunnerStep
<1>15. CASE UNCHANGED vars
  BY <1>15 DEF vars, clientVars, runnerVars
<1> QED
  BY <1>1, <1>2, <1>3, <1>4, <1>5, <1>6, <1>7, <1>8, <1>9, <1>10, <1>11,
     <1>12, <1>13, <1>14, <1>15
     DEF Next, ClientNext, RunnerNext, SubmitStep, WaitStep

LEMMA CoherentInit == Init => TypeOK /\ Coherent
BY MaxTasksAssumption
   DEF Init, TypeOK, Coherent, TaskCoherent, VerdictCoherent, SubmitCoherent,
       Ids, Kinds, Outcomes, Terminal, Statuses, Task, NewTask, SubmitSteps,
       WaitSteps, RunnerSteps, Returned, Decided, Updated

(* Every step of the TaskManager keeps the maps, the contexts, the clients *)
(* and the task goroutines in agreement.                                   *)
LEMMA CoherentStep == TypeOK /\ Coherent /\ [Next]_vars => Coherent'
<1> SUFFICES ASSUME TypeOK, Coherent, [Next]_vars PROVE Coherent'
  OBVIOUS
<1> USE MaxTasksAssumption, WaitAloneAssumption
<1> USE DEF TypeOK, Ids, Kinds, Outcomes, Terminal, Statuses, Task, NewTask,
            SubmitSteps, WaitSteps, RunnerSteps, Returned, Decided, Updated,
            Coherent
<1>1. ASSUME NEW c \in Clients, NEW k \in Kinds, NextID(c, k) PROVE Coherent'
  <2>1. \A i \in Ids : TaskCoherent(i)'
    BY <1>1
       DEF NextID, NewId, ClientStep, TaskCoherent, VerdictCoherent, SubmitCoherent
  <2>2. \A i \in Ids : VerdictCoherent(i)'
    BY <1>1 DEF NextID, NewId, ClientStep, TaskCoherent, VerdictCoherent
  <2>3. \A d \in Clients : SubmitCoherent(d)'
    BY <1>1 DEF NextID, NewId, ClientStep, TaskCoherent, SubmitCoherent
  <2> QED BY <2>1, <2>2, <2>3
<1>2. ASSUME NEW c \in Clients, Register(c) PROVE Coherent'
  <2>1. \A i \in Ids : TaskCoherent(i)'
    <3> SUFFICES ASSUME NEW i \in Ids PROVE TaskCoherent(i)'
      OBVIOUS
    <3>1. cur[c] \in Ids /\ cur[c] <= counter /\ runner[cur[c]] = "none"
      BY <1>2 DEF Register, ClientStep, SubmitCoherent
    <3>2. CASE i = cur[c]
      BY <1>2, <3>1, <3>2 DEF Register, ClientStep, runnerVars, TaskCoherent
    <3>3. CASE i # cur[c]
      BY <1>2, <3>1, <3>3 DEF Register, ClientStep, runnerVars, TaskCoherent
    <3> QED BY <3>2, <3>3
  <2>2. \A i \in Ids : VerdictCoherent(i)'
    BY <1>2 DEF Register, ClientStep, runnerVars, VerdictCoherent
  <2>3. \A d \in Clients : SubmitCoherent(d)'
    BY <1>2 DEF Register, ClientStep, runnerVars, TaskCoherent, SubmitCoherent
  <2> QED BY <2>1, <2>2, <2>3
<1>3. ASSUME NEW c \in Clients, AddToGroup(c) PROVE Coherent'
  <2>1. \A i \in Ids : TaskCoherent(i)'
    BY <1>3
       DEF AddToGroup, ClientStep, runnerVars, TaskCoherent, VerdictCoherent,
           SubmitCoherent
  <2>2. \A i \in Ids : VerdictCoherent(i)'
    BY <1>3 DEF AddToGroup, ClientStep, runnerVars, VerdictCoherent
  <2>3. \A d \in Clients : SubmitCoherent(d)'
    BY <1>3
       DEF AddToGroup, ClientStep, runnerVars, TaskCoherent, SubmitCoherent
  <2> QED BY <2>1, <2>2, <2>3
<1>4. ASSUME NEW c \in Clients, Spawn(c) PROVE Coherent'
  <2>1. \A i \in Ids : TaskCoherent(i)'
    BY <1>4
       DEF Spawn, ClientStep, TaskCoherent, VerdictCoherent, SubmitCoherent
  <2>2. \A i \in Ids : VerdictCoherent(i)'
    BY <1>4 DEF Spawn, ClientStep, SubmitCoherent, VerdictCoherent
  <2>3. \A d \in Clients : SubmitCoherent(d)'
    BY <1>4 DEF Spawn, ClientStep, TaskCoherent, SubmitCoherent
  <2> QED BY <2>1, <2>2, <2>3
<1>5. ASSUME NEW c \in Clients, NEW id \in Ids, Cancel(c, id) PROVE Coherent'
  <2>1. \A i \in Ids : TaskCoherent(i)'
    BY <1>5
       DEF Cancel, clientVars, runnerVars, TaskCoherent, VerdictCoherent,
           SubmitCoherent
  <2>2. \A i \in Ids : VerdictCoherent(i)'
    BY <1>5 DEF Cancel, clientVars, runnerVars, VerdictCoherent
  <2>3. \A d \in Clients : SubmitCoherent(d)'
    BY <1>5 DEF Cancel, clientVars, runnerVars, TaskCoherent, SubmitCoherent
  <2> QED BY <2>1, <2>2, <2>3
<1>6. ASSUME NEW c \in Clients, WaitCall(c) PROVE Coherent'
  <2>1. \A i \in Ids : TaskCoherent(i)'
    BY <1>6
       DEF WaitCall, ClientStep, runnerVars, TaskCoherent, VerdictCoherent,
           SubmitCoherent
  <2>2. \A i \in Ids : VerdictCoherent(i)'
    BY <1>6 DEF WaitCall, ClientStep, runnerVars, VerdictCoherent
  <2>3. \A d \in Clients : SubmitCoherent(d)'
    BY <1>6 DEF WaitCall, ClientStep, runnerVars, TaskCoherent, SubmitCoherent
  <2> QED BY <2>1, <2>2, <2>3
<1>7. ASSUME NEW c \in Clients, WaitLoad(c) PROVE Coherent'
  <2>1. \A i \in Ids : TaskCoherent(i)'
    BY <1>7
       DEF WaitLoad, ClientStep, runnerVars, TaskCoherent, VerdictCoherent,
           SubmitCoherent
  <2>2. \A i \in Ids : VerdictCoherent(i)'
    BY <1>7 DEF WaitLoad, ClientStep, runnerVars, VerdictCoherent
  <2>3. \A d \in Clients : SubmitCoherent(d)'
    BY <1>7 DEF WaitLoad, ClientStep, runnerVars, TaskCoherent, SubmitCoherent
  <2> QED BY <2>1, <2>2, <2>3
<1>8. ASSUME NEW c \in Clients, WaitWake(c) PROVE Coherent'
  <2>1. \A i \in Ids : TaskCoherent(i)'
    BY <1>8
       DEF WaitWake, ClientStep, runnerVars, TaskCoherent, VerdictCoherent,
           SubmitCoherent
  <2>2. \A i \in Ids : VerdictCoherent(i)'
    BY <1>8 DEF WaitWake, ClientStep, runnerVars, VerdictCoherent
  <2>3. \A d \in Clients : SubmitCoherent(d)'
    BY <1>8 DEF WaitWake, ClientStep, runnerVars, TaskCoherent, SubmitCoherent
  <2> QED BY <2>1, <2>2, <2>3
<1>9. ASSUME NEW id \in Ids, Start(id) PROVE Coherent'
  <2>1. \A i \in Ids : TaskCoherent(i)'
    <3> SUFFICES ASSUME NEW i \in Ids PROVE TaskCoherent(i)'
      OBVIOUS
    <3>1. CASE i = id
      <4>1. tasks[id] = NewTask("pending") /\ id <= counter /\ id \in cancels
        BY <1>9 DEF Start, RunnerStep, TaskCoherent
      <4>2. tasks'[id] = NewTask("running") /\ runner'[id] = "executing"
        BY <1>9, <4>1 DEF Start, RunnerStep, UpdateTask
      <4> QED BY <1>9, <3>1, <4>1, <4>2 DEF Start, TaskCoherent
    <3>2. CASE i # id
      <4>1. tasks'[i] = tasks[i] /\ runner'[i] = runner[i]
        BY <1>9, <3>2 DEF Start, RunnerStep, UpdateTask
      <4> QED BY <1>9, <4>1 DEF Start, TaskCoherent
    <3> QED BY <3>1, <3>2
  <2>2. \A i \in Ids : VerdictCoherent(i)'
    <3> SUFFICES ASSUME NEW i \in Ids PROVE VerdictCoherent(i)'
      OBVIOUS
    <3>1. runner'[i] = IF i = id THEN "executing" ELSE runner[i]
      BY <1>9 DEF Start, RunnerStep
    <3>2. i = id => i \notin sawCancel
      BY <1>9 DEF Start, RunnerStep, VerdictCoherent
    <3> QED BY <1>9, <3>1, <3>2 DEF Start, VerdictCoherent
  <2>3. \A d \in Clients : SubmitCoherent(d)'
    BY <1>9
       DEF Start, RunnerStep, UpdateTask, clientVars, TaskCoherent,
           SubmitCoherent
  <2> QED BY <2>1, <2>2, <2>3
<1>10. ASSUME NEW id \in Ids, NEW o \in Outcomes, FnReturn(id, o) PROVE Coherent'
  <2>1. \A i \in Ids : TaskCoherent(i)'
    BY <1>10
       DEF FnReturn, RunnerStep, clientVars, TaskCoherent, VerdictCoherent,
           SubmitCoherent
  <2>2. \A i \in Ids : VerdictCoherent(i)'
    BY <1>10 DEF FnReturn, RunnerStep, clientVars, VerdictCoherent
  <2>3. \A d \in Clients : SubmitCoherent(d)'
    BY <1>10 DEF FnReturn, RunnerStep, clientVars, TaskCoherent, SubmitCoherent
  <2> QED BY <2>1, <2>2, <2>3
<1>11. ASSUME NEW id \in Ids, Decide(id) PROVE Coherent'
  <2>1. \A i \in Ids : TaskCoherent(i)'
    <3> SUFFICES ASSUME NEW i \in Ids PROVE TaskCoherent(i)'
      OBVIOUS
    <3>1. CASE i = id
      BY <1>11, <3>1
         DEF Decide, RunnerStep, FinalStatus, clientVars, TaskCoherent,
             VerdictCoherent
    <3>2. CASE i # id
      BY <1>11, <3>2
         DEF Decide, RunnerStep, FinalStatus, clientVars, TaskCoherent
    <3> QED BY <3>1, <3>2
  <2>2. \A i \in Ids : VerdictCoherent(i)'
    BY <1>11 DEF Decide, RunnerStep, FinalStatus, clientVars, VerdictCoherent
  <2>3. \A d \in Clients : SubmitCoherent(d)'
    BY <1>11
       DEF Decide, RunnerStep, FinalStatus, clientVars, TaskCoherent,
           SubmitCoherent
  <2> QED BY <2>1, <2>2, <2>3
<1>12. ASSUME NEW id \in Ids, Update(id) PROVE Coherent'
  <2>1. \A i \in Ids : TaskCoherent(i)'
    <3> SUFFICES ASSUME NEW i \in Ids PROVE TaskCoherent(i)'
      OBVIOUS
    <3>1. CASE i = id
      <4>1. /\ runner[id] = "decided" /\ runner'[id] = "updated"
            /\ verdict[id] \in Terminal
            /\ tasks[id].status = "running"
        BY <1>12 DEF Update, RunnerStep, TaskCoherent, VerdictCoherent
      <4>2. /\ tasks'[id].status = verdict[id]
            /\ tasks'[id].result = (verdict[id] = "completed")
            /\ tasks'[id].error = (outcome[id] = "err")
        BY <1>12, <4>1 DEF Update, UpdateTask
      <4>3. UNCHANGED <<verdict, outcome, cancels, counter>>
        BY <1>12 DEF Update
      <4>4. id \in cancels /\ id <= counter
        BY <4>1 DEF TaskCoherent
      <4> QED BY <3>1, <4>1, <4>2, <4>3, <4>4 DEF TaskCoherent
    <3>2. CASE i # id
      BY <1>12, <3>2
         DEF Update, RunnerStep, UpdateTask, clientVars, TaskCoherent
    <3> QED BY <3>1, <3>2
  <2>2. \A i \in Ids : VerdictCoherent(i)'
    BY <1>12 DEF Update, RunnerStep, UpdateTask, clientVars, VerdictCoherent
  <2>3. \A d \in Clients : SubmitCoherent(d)'
    BY <1>12
       DEF Update, RunnerStep, UpdateTask, clientVars, TaskCoherent,
           SubmitCoherent
  <2> QED BY <2>1, <2>2, <2>3
<1>13. ASSUME NEW id \in Ids, CleanUp(id) PROVE Coherent'
  <2>1. \A i \in Ids : TaskCoherent(i)'
    <3> SUFFICES ASSUME NEW i \in Ids PROVE TaskCoherent(i)'
      OBVIOUS
    <3>1. CASE i = id
      BY <1>13, <3>1
         DEF CleanUp, RunnerStep, clientVars, TaskCoherent, VerdictCoherent
    <3>2. CASE i # id
      BY <1>13, <3>2 DEF CleanUp, RunnerStep, clientVars, TaskCoherent
    <3> QED BY <3>1, <3>2
  <2>2. \A i \in Ids : VerdictCoherent(i)'
    BY <1>13 DEF CleanUp, RunnerStep, clientVars, VerdictCoherent
  <2>3. \A d \in Clients : SubmitCoherent(d)'
    BY <1>13 DEF CleanUp, RunnerStep, clientVars, TaskCoherent, SubmitCoherent
  <2> QED BY <2>1, <2>2, <2>3
<1>14. ASSUME NEW id \in Ids, Done(id) PROVE Coherent'
  <2>1. \A i \in Ids : TaskCoherent(i)'
    BY <1>14
       DEF Done, GroupDone, RunnerStep, TaskCoherent, VerdictCoherent, SubmitCoherent
  <2>2. \A i \in Ids : VerdictCoherent(i)'
    BY <1>14 DEF Done, GroupDone, RunnerStep, VerdictCoherent
  <2>3. \A d \in Clients : SubmitCoherent(d)'
    BY <1>14 DEF Done, GroupDone, RunnerStep, TaskCoherent, SubmitCoherent
  <2> QED BY <2>1, <2>2, <2>3
<1>15. CASE UNCHANGED vars
  BY <1>15 DEF vars, clientVars, runnerVars, TaskCoherent, VerdictCoherent,
               SubmitCoherent
<1> QED
  BY <1>1, <1>2, <1>3, <1>4, <1>5, <1>6, <1>7, <1>8, <1>9, <1>10, <1>11,
     <1>12, <1>13, <1>14, <1>15
     DEF Next, ClientNext, RunnerNext, SubmitStep, WaitStep

Inv == TypeOK /\ Coherent

LEMMA InvAlways == SafetySpec => []Inv
<1>1. Init => Inv
  BY CoherentInit DEF Inv
<1>2. Inv /\ [Next]_vars => Inv'
  BY TypeStep, CoherentStep DEF Inv
<1> QED
  BY <1>1, <1>2, PTL DEF SafetySpec

(* Every variable keeps its type.                                          *)
THEOREM TypeCorrect == SafetySpec => []TypeOK
<1>1. Inv => TypeOK
  BY DEF Inv
<1> QED BY <1>1, InvAlways, PTL

(* The maps, contexts, clients and task goroutines always agree.           *)
THEOREM CoherentCorrect == SafetySpec => []Coherent
<1>1. Inv => Coherent
  BY DEF Inv
<1> QED BY <1>1, InvAlways, PTL

(* No two Submits ever work on the same identifier, nor does one reuse the *)
(* identifier of a registered task.                                        *)
THEOREM UniqueIdsCorrect == SafetySpec => []UniqueIds
<1>1. Inv => UniqueIds
  BY DEF Inv, Coherent, SubmitCoherent, UniqueIds, Registered, Submitted
<1> QED BY <1>1, InvAlways, PTL

(* The reply "has no cancel function" of Cancel is unreachable.            *)
THEOREM CancelFnPresentCorrect == SafetySpec => []CancelFnPresent
<1>1. Inv => CancelFnPresent
  <2> SUFFICES ASSUME Inv, NEW id \in Ids, tasks[id].status # "absent",
                      id \notin cancels
               PROVE  IsTerminal(tasks[id].status)
    BY DEF CancelFnPresent, Registered
  <2>1. runner[id] \in {"cleaned", "done"}
    BY DEF Inv, Coherent, TaskCoherent
  <2> QED
    BY <2>1 DEF Inv, Coherent, TaskCoherent, VerdictCoherent, IsTerminal,
                Updated, Decided, Returned
<1> QED BY <1>1, InvAlways, PTL

(* A cancellation that the task function could see decides the status.     *)
THEOREM CancelHonouredCorrect == SafetySpec => []CancelHonoured
<1>1. Inv => CancelHonoured
  <2> SUFFICES ASSUME Inv, NEW id \in sawCancel, IsTerminal(tasks[id].status)
               PROVE  \/ tasks[id].status = "cancelled"
                      \/ kind[id] = "plain" /\ outcome[id] = "ok"
    BY DEF CancelHonoured
  <2>1. id \in Ids /\ runner[id] \in Returned
    BY DEF Inv, TypeOK, Coherent, VerdictCoherent
  <2>2. runner[id] \in Updated
    BY <2>1 DEF Inv, Coherent, TaskCoherent, IsTerminal, Terminal, NewTask,
                Returned, Decided, Updated
  <2> QED
    BY <2>1, <2>2 DEF Inv, Coherent, TaskCoherent, VerdictCoherent, Updated
<1> QED BY <1>1, InvAlways, PTL

(* Nothing is cancelled that nobody cancelled, and results and errors show *)
(* only on the tasks they belong to.                                       *)
THEOREM NoSpuriousStatusCorrect == SafetySpec => []NoSpuriousStatus
<1>1. Inv => NoSpuriousStatus
  <2> SUFFICES ASSUME Inv, NEW id \in Ids
               PROVE  /\ tasks[id].status = "cancelled" => id \in cancelled
                      /\ tasks[id].result => /\ tasks[id].status = "completed"
                                             /\ outcome[id] = "ok"
                      /\ tasks[id].status = "failed" => tasks[id].error
    BY DEF NoSpuriousStatus, Registered
  <2>1. CASE runner[id] \in Updated
    BY <2>1 DEF Inv, TypeOK, Task, Coherent, TaskCoherent, VerdictCoherent,
                Updated, Decided
  <2>2. CASE runner[id] \notin Updated
    <3>1. tasks[id] \in {NewTask("absent"), NewTask("pending"), NewTask("running")}
      BY <2>2 DEF Inv, TypeOK, RunnerSteps, Coherent, TaskCoherent, Returned,
                  Decided, Updated
    <3> QED BY <3>1 DEF NewTask
  <2> QED BY <2>1, <2>2
<1> QED BY <1>1, InvAlways, PTL

-----------------------------------------------------------------------------
(* In a terminal status a task is touched by no action.                    *)
THEOREM TerminalAbsorbingCorrect == SafetySpec => TerminalAbsorbing
<1> DEFINE Kept == \A id \in Ids : IsTerminal(tasks[id].status) =>
                     tasks'[id] = tasks[id]
<1>1. Inv /\ [Next]_vars => Kept
  <2> SUFFICES ASSUME Inv, [Next]_vars, NEW id \in Ids,
                      IsTerminal(tasks[id].status)
               PROVE  tasks'[id] = tasks[id]
    OBVIOUS
  <2>1. runner[id] \in Updated
    BY DEF Inv, TypeOK, RunnerSteps, Coherent, TaskCoherent, IsTerminal,
           Terminal, NewTask, Returned, Decided, Updated
  <2>2. ASSUME NEW c \in Clients, Register(c) PROVE tasks'[id] = tasks[id]
    BY <2>1, <2>2 DEF Register, ClientStep, Inv, Coherent, SubmitCoherent,
                      SubmitSteps, Returned, Decided, Updated
  <2>3. ASSUME NEW i \in Ids, Start(i) \/ Update(i) PROVE tasks'[id] = tasks[id]
    BY <2>1, <2>3 DEF Start, Update, UpdateTask, RunnerStep, Returned, Decided,
                      Updated, Inv, TypeOK
  <2>4. CASE UNCHANGED vars
    BY <2>4 DEF vars
  <2> QED
    BY <2>2, <2>3, <2>4
       DEF Next, ClientNext, RunnerNext, SubmitStep, WaitStep, NextID,
           AddToGroup, Spawn, Cancel, WaitCall, WaitLoad, WaitWake, FnReturn,
           Decide, CleanUp, Done
<1> QED
  BY <1>1, InvAlways, PTL DEF SafetySpec, TerminalAbsorbing

-----------------------------------------------------------------------------
(* The WaitGroup.                                                          *)

(* A task is active from wg.Add until wg.Done, and no other step changes   *)
(* which tasks are.                                                        *)
LEMMA ActiveStep ==
  ASSUME Inv, [Next]_vars
  PROVE  \/ wg' = wg /\ Active' = Active
         \/ wg' = wg + 1 /\ \E id \in Ids \ Active : Active' = Active \cup {id}
         \/ wg' = wg - 1 /\ \E id \in Active : Active' = Active \ {id}
<1> DEFINE Same == wg' = wg /\ Active' = Active
<1> USE DEF Active, RunnerSteps
<1>1. ASSUME NEW c \in Clients, NEW k \in Kinds, NextID(c, k) PROVE Same
  BY <1>1 DEF NextID, NewId, ClientStep, Inv, TypeOK
<1>2. ASSUME NEW c \in Clients, Register(c) PROVE Same
  BY <1>2 DEF Register, ClientStep, runnerVars, Inv, TypeOK
<1>3. ASSUME NEW c \in Clients, AddToGroup(c)
      PROVE  /\ wg' = wg + 1
             /\ cur[c] \in Ids \ Active
             /\ Active' = Active \cup {cur[c]}
  <2>1. cur[c] \in Ids
    BY <1>3, MaxTasksAssumption
       DEF AddToGroup, ClientStep, Inv, TypeOK, Coherent, SubmitCoherent,
           SubmitSteps, Ids
  <2>2. cur[c] \notin Active
    BY <1>3
       DEF AddToGroup, ClientStep, Inv, Coherent, SubmitCoherent, SubmitSteps
  <2>3. Active' = Active \cup {cur[c]}
    BY <1>3, <2>1 DEF AddToGroup, ClientStep, runnerVars, Inv, TypeOK
  <2> QED BY <1>3, <2>1, <2>2, <2>3 DEF AddToGroup
<1>4. ASSUME NEW c \in Clients, Spawn(c) PROVE Same
  <2>1. cur[c] \in Ids
    BY <1>4, MaxTasksAssumption
       DEF Spawn, ClientStep, Inv, TypeOK, Coherent, SubmitCoherent,
           SubmitSteps, Ids
  <2>2. \A id \in Ids : id \in Active' <=> id \in Active
    BY <1>4, <2>1 DEF Spawn, ClientStep, Inv, TypeOK
  <2> QED BY <1>4, <2>2 DEF Spawn
<1>5. ASSUME NEW c \in Clients, NEW id \in Ids, Cancel(c, id) PROVE Same
  BY <1>5 DEF Cancel, clientVars, runnerVars
<1>6. ASSUME NEW c \in Clients, WaitCall(c) \/ WaitStep(c) PROVE Same
  BY <1>6 DEF WaitStep, WaitCall, WaitLoad, WaitWake, ClientStep, runnerVars,
              Inv, TypeOK
<1>7. ASSUME NEW id \in Ids,
             \/ Start(id) \/ \E o \in Outcomes : FnReturn(id, o)
             \/ Decide(id) \/ Update(id) \/ CleanUp(id)
      PROVE  Same
  <2>1. /\ UNCHANGED <<pc, cur, wg>>
        /\ runner[id] \in {"spawned"} \cup RunnerSteps
        /\ \E to \in RunnerSteps : runner' = [runner EXCEPT ![id] = to]
    BY <1>7
       DEF Start, FnReturn, Decide, Update, CleanUp, RunnerStep, clientVars
  <2>2. \A i \in Ids : i \in Active' <=> i \in Active
    BY <2>1 DEF Inv, TypeOK
  <2> QED BY <2>1, <2>2
<1>8. ASSUME NEW id \in Ids, Done(id)
      PROVE  wg' = wg - 1 /\ id \in Active /\ Active' = Active \ {id}
  <2>1. id \in Active
    BY <1>8 DEF Done, GroupDone, RunnerStep
  <2>2. \A i \in Ids : i \in Active' <=> i \in Active /\ i # id
    <3>1. \A c \in Clients : pc'[c] = "spawn" <=> pc[c] = "spawn"
      BY <1>8 DEF Done, GroupDone, Inv, TypeOK
    <3>2. \A c \in Clients : pc[c] = "spawn" => cur[c] # id
      BY <1>8 DEF Done, GroupDone, RunnerStep, Inv, Coherent, SubmitCoherent, SubmitSteps
    <3> QED BY <1>8, <3>1, <3>2 DEF Done, GroupDone, RunnerStep, Inv, TypeOK
  <2> QED BY <1>8, <2>1, <2>2 DEF Done, GroupDone
<1>9. CASE UNCHANGED vars
  BY <1>9 DEF vars, clientVars, runnerVars
<1> QED
  BY <1>1, <1>2, <1>3, <1>4, <1>5, <1>6, <1>7, <1>8, <1>9
     DEF Next, ClientNext, RunnerNext, SubmitStep

(* The set of active tasks is finite, as every set of identifiers is.      *)
LEMMA ActiveFinite == IsFiniteSet(Active)
<1>1. IsFiniteSet(Ids)
  BY FS_Interval, MaxTasksAssumption DEF Ids
<1> QED BY <1>1, FS_Subset DEF Active

(* Every step keeps the counter equal to the number of active tasks.       *)
LEMMA GroupStep == Inv /\ GroupCount /\ [Next]_vars => GroupCount'
<1> SUFFICES ASSUME Inv, GroupCount, [Next]_vars PROVE GroupCount'
  OBVIOUS
<1>1. CASE wg' = wg /\ Active' = Active
  BY <1>1 DEF GroupCount
<1>2. ASSUME wg' = wg + 1, NEW id \in Ids \ Active, Active' = Active \cup {id}
      PROVE  GroupCount'
  <2>1. Cardinality(Active \cup {id}) = Cardinality(Active) + 1
    BY FS_AddElement, ActiveFinite
  <2> QED BY <1>2, <2>1 DEF GroupCount
<1>3. ASSUME wg' = wg - 1, NEW id \in Active, Active' = Active \ {id}
      PROVE  GroupCount'
  <2>1. Cardinality(Active \ {id}) = Cardinality(Active) - 1
    BY FS_RemoveElement, ActiveFinite
  <2> QED BY <1>3, <2>1 DEF GroupCount
<1> QED BY <1>1, <1>2, <1>3, ActiveStep

(* The counter of the WaitGroup is the number of active tasks: Done never  *)
(* drives it below zero.                                                   *)
THEOREM GroupCountCorrect == SafetySpec => []GroupCount
<1>1. Init => GroupCount
  <2> SUFFICES ASSUME Init PROVE GroupCount
    OBVIOUS
  <2>1. Active = {}
    BY DEF Init, Active, RunnerSteps
  <2> QED BY <2>1, FS_EmptySet DEF Init, GroupCount
<1>2. Inv /\ GroupCount /\ [Next]_vars => GroupCount'
  BY GroupStep
<1> QED
  BY <1>1, <1>2, InvAlways, PTL DEF SafetySpec

(* A task goroutine, once started, is never unstarted, nor restarted once  *)
(* it is done.                                                             *)
LEMMA RunnerForward ==
  ASSUME Inv, [Next]_vars, NEW id \in Ids
  PROVE  /\ runner[id] # "none" => runner'[id] # "none"
         /\ runner[id] = "done" => runner'[id] = "done"
<1>1. ASSUME NEW c \in Clients, Spawn(c)
      PROVE  runner[id] # "none" => runner'[id] = runner[id]
  <2>1. runner[cur[c]] = "none"
    BY <1>1 DEF Spawn, ClientStep, SubmitSteps, Inv, Coherent, SubmitCoherent
  <2> QED BY <1>1, <2>1 DEF Spawn, Inv, TypeOK
<1>2. ASSUME NEW i \in Ids, RunnerNext(i)
      PROVE  /\ runner[i] # "done" /\ runner[i] # "none"
             /\ \E to : to # "none" /\ runner' = [runner EXCEPT ![i] = to]
  BY <1>2 DEF RunnerNext, Start, FnReturn, Decide, Update, CleanUp, Done,
              RunnerStep
<1>3. CASE UNCHANGED runner
  BY <1>3
<1> QED
  BY <1>1, <1>2, <1>3
     DEF Next, ClientNext, SubmitStep, WaitStep, NextID, Register, AddToGroup,
         Cancel, WaitCall, WaitLoad, WaitWake, runnerVars, vars, Inv, TypeOK

(* The ways a client moves in and out of Wait.                             *)
LEMMA WaitMoves ==
  ASSUME Inv, [Next]_vars, NEW d \in Clients
  PROVE  \/ WaitCall(d) \/ WaitLoad(d) \/ WaitWake(d)
         \/ /\ \E i \in Ids : Done(i)
            /\ pc[d] = "parked" /\ pc'[d] = "woken"
            /\ waitFor'[d] = waitFor[d]
         \/ /\ waitFor'[d] = waitFor[d]
            /\ \/ pc'[d] = pc[d]
               \/ pc[d] \notin WaitSteps /\ pc'[d] \notin WaitSteps
<1> DEFINE Still == /\ waitFor'[d] = waitFor[d]
                    /\ \/ pc'[d] = pc[d]
                       \/ pc[d] \notin WaitSteps /\ pc'[d] \notin WaitSteps
<1> USE DEF WaitSteps, ClientStep, Inv, TypeOK
<1>1. ASSUME NEW c \in Clients, NEW k \in Kinds, NextID(c, k) PROVE Still
  BY <1>1 DEF NextID
<1>2. ASSUME NEW c \in Clients, SubmitStep(c) PROVE Still
  BY <1>2 DEF SubmitStep, Register, AddToGroup, Spawn
<1>3. ASSUME NEW c \in Clients, NEW id \in Ids, Cancel(c, id) PROVE Still
  BY <1>3 DEF Cancel, clientVars
<1>4. ASSUME NEW c \in Clients, WaitCall(c) \/ WaitStep(c), c # d PROVE Still
  BY <1>4 DEF WaitCall, WaitStep, WaitLoad, WaitWake
<1>5. ASSUME NEW id \in Ids,
             \/ Start(id) \/ \E o \in Outcomes : FnReturn(id, o)
             \/ Decide(id) \/ Update(id) \/ CleanUp(id)
      PROVE  Still
  BY <1>5 DEF Start, FnReturn, Decide, Update, CleanUp, clientVars
<1>6. ASSUME NEW id \in Ids, Done(id)
      PROVE  Still \/ /\ pc[d] = "parked" /\ pc'[d] = "woken"
                      /\ waitFor'[d] = waitFor[d]
  BY <1>6 DEF Done, GroupDone
<1>7. CASE UNCHANGED vars
  BY <1>7 DEF vars, clientVars
<1> QED
  BY <1>1, <1>2, <1>3, <1>4, <1>5, <1>6, <1>7
     DEF Next, ClientNext, RunnerNext, WaitStep

(* With the group empty, every submitted task is done.                     *)
LEMMA EmptyGroup ==
  ASSUME Inv, GroupCount, wg = 0, NEW id \in Submitted
  PROVE  runner[id] = "done"
<1>1. Active = {}
  BY ActiveFinite, FS_EmptySet DEF GroupCount
<1> QED BY <1>1 DEF Active, Submitted, Inv, TypeOK

(* A released waiter waits for tasks that are done.                        *)
THEOREM WaitCoherentCorrect == SafetySpec => []WaitCoherent
<1>1. Init => WaitCoherent
  BY DEF Init, WaitCoherent, WaitSteps
<1>2. Inv /\ GroupCount /\ WaitCoherent /\ [Next]_vars => WaitCoherent'
  <2> SUFFICES ASSUME Inv, GroupCount, WaitCoherent, [Next]_vars,
                      NEW d \in Clients, pc'[d] \in WaitSteps,
                      NEW id \in waitFor'[d]
               PROVE  /\ id \in Submitted'
                      /\ pc'[d] = "woken" => runner'[id] = "done"
    BY DEF WaitCoherent
  <2>1. ASSUME NEW c \in Clients, WaitCall(c), c = d
        PROVE  id \in Submitted' /\ pc'[d] # "woken"
    BY <2>1, RunnerForward
       DEF WaitCall, ClientStep, runnerVars, Inv, TypeOK, Submitted
  <2>2. ASSUME pc[d] \in WaitSteps, waitFor'[d] = waitFor[d]
        PROVE  id \in Submitted' /\ (pc[d] = "woken" => runner'[id] = "done")
    BY <2>2, RunnerForward DEF WaitCoherent, Submitted
  <2>3. ASSUME NEW i \in Ids, Done(i), pc[d] = "parked", pc'[d] = "woken"
        PROVE  runner'[id] = "done"
    <3>1. wg = 1 /\ runner'[i] = "done" /\ waitFor'[d] = waitFor[d]
      BY <2>3 DEF Done, GroupDone, RunnerStep, Inv, TypeOK
    <3>2. id \in Submitted
      BY <2>3, <3>1 DEF WaitCoherent, WaitSteps
    <3>3. Active \ {i} = {}
      <4>1. i \in Active
        BY <2>3 DEF Done, GroupDone, RunnerStep, Active, RunnerSteps
      <4>2. IsFiniteSet(Active \ {i}) /\ Cardinality(Active \ {i}) = 0
        <5>1. /\ IsFiniteSet(Active \ {i})
              /\ Cardinality(Active \ {i}) = Cardinality(Active) - 1
          BY <4>1, FS_RemoveElement, ActiveFinite
        <5>2. Cardinality(Active) = 1
          BY <3>1 DEF GroupCount
        <5> QED BY <5>1, <5>2
      <4> QED BY <4>2, FS_EmptySet
    <3>4. CASE id # i
      BY <3>2, <3>3, <3>4, RunnerForward DEF Active, Submitted, Inv, TypeOK
    <3> QED BY <3>1, <3>4
  <2>4. CASE WaitLoad(d) \/ WaitWake(d)
    BY <2>2, <2>4
       DEF WaitLoad, WaitWake, ClientStep, WaitSteps, Inv, TypeOK
  <2> QED BY <2>1, <2>2, <2>3, <2>4, WaitMoves DEF WaitSteps
<1> QED
  BY <1>1, <1>2, InvAlways, GroupCountCorrect, PTL DEF SafetySpec

(* Wait returns only after every task submitted before it has its final    *)
(* status.                                                                 *)
THEOREM WaitSoundCorrect == SafetySpec => WaitSound
<1> DEFINE Sound == \A c \in Clients : pc[c] \in WaitSteps /\ pc'[c] = "idle" =>
                      \A id \in waitFor[c] :
                        IsTerminal(tasks'[id].status) /\ id \notin cancels'
<1>1. Inv /\ GroupCount /\ WaitCoherent /\ [Next]_vars => Sound
  <2> SUFFICES ASSUME Inv, GroupCount, WaitCoherent, [Next]_vars,
                      NEW c \in Clients, pc[c] \in WaitSteps, pc'[c] = "idle",
                      NEW id \in waitFor[c]
               PROVE  IsTerminal(tasks'[id].status) /\ id \notin cancels'
    OBVIOUS
  <2>1. \/ WaitLoad(c) /\ wg = 0
        \/ WaitWake(c) /\ pc[c] = "woken"
    <3>1. WaitLoad(c) \/ WaitWake(c)
      BY WaitMoves DEF WaitCall, ClientStep, WaitSteps, Inv, TypeOK
    <3>2. ASSUME WaitLoad(c) PROVE wg = 0
      BY <3>2 DEF WaitLoad, ClientStep, Inv, TypeOK
    <3>3. ASSUME WaitWake(c) PROVE pc[c] = "woken"
      BY <3>3 DEF WaitWake, ClientStep
    <3> QED BY <3>1, <3>2, <3>3
  <2>2. id \in Ids /\ id \in Submitted
    BY DEF Inv, TypeOK, WaitCoherent
  <2>3. runner[id] = "done"
    BY <2>1, <2>2, EmptyGroup DEF WaitCoherent
  <2>4. UNCHANGED <<tasks, cancels>>
    BY <2>1 DEF WaitLoad, WaitWake
  <2> QED
    BY <2>2, <2>3, <2>4 DEF Inv, Coherent, TaskCoherent, VerdictCoherent,
                           IsTerminal, Returned, Decided, Updated
<1> QED
  BY <1>1, InvAlways, GroupCountCorrect, WaitCoherentCorrect, PTL
     DEF SafetySpec, WaitSound

-----------------------------------------------------------------------------
(* Wait, as its callers use it.                                            *)

(* Nobody waits while somebody submits, and once the group is empty nobody *)
(* is left parked: a waiter that was woken finds the group as the last     *)
(* Done left it.                                                           *)
WaitAlways ==
  /\ (\E c \in Clients : pc[c] \in WaitSteps) =>
       \A d \in Clients : pc[d] \notin SubmitSteps
  /\ (\E c \in Clients : pc[c] = "woken") =>
       wg = 0 /\ \A d \in Clients : pc[d] # "parked"
  /\ Alive

(* As long as no Submit overlaps a Wait, none of the steps of either turns *)
(* a waiter's wake-up into a panic.                                        *)
LEMMA WaitAlwaysStep ==
  ASSUME WaitAlone, Inv, GroupCount, WaitAlways, [Next]_vars
  PROVE  WaitAlways'
<1> USE DEF WaitAlways, Alive, ClientStep, SubmitSteps, WaitSteps, Inv, TypeOK
<1>1. ASSUME NEW c \in Clients, NEW k \in Kinds, NextID(c, k)
      PROVE  WaitAlways'
  BY <1>1 DEF NextID
<1>2. ASSUME NEW c \in Clients, Register(c) \/ AddToGroup(c) \/ Spawn(c)
      PROVE  WaitAlways'
  BY <1>2 DEF Register, AddToGroup, Spawn
<1>3. ASSUME NEW c \in Clients, NEW id \in Ids, Cancel(c, id)
      PROVE  WaitAlways'
  BY <1>3 DEF Cancel, clientVars
<1>4. ASSUME NEW c \in Clients, WaitCall(c) PROVE WaitAlways'
  BY <1>4 DEF WaitCall
<1>5. ASSUME NEW c \in Clients, WaitLoad(c) PROVE WaitAlways'
  BY <1>5 DEF WaitLoad
<1>6. ASSUME NEW c \in Clients, WaitWake(c) PROVE WaitAlways'
  BY <1>6 DEF WaitWake
<1>7. ASSUME NEW id \in Ids,
             \/ Start(id) \/ \E o \in Outcomes : FnReturn(id, o)
             \/ Decide(id) \/ Update(id) \/ CleanUp(id)
      PROVE  WaitAlways'
  BY <1>7 DEF Start, FnReturn, Decide, Update, CleanUp, clientVars
<1>8. ASSUME NEW id \in Ids, Done(id) PROVE WaitAlways'
  <2>1. id \in Active
    BY <1>8 DEF Done, RunnerStep, Active, RunnerSteps
  <2>2. wg # 0
    BY <2>1, ActiveFinite, FS_EmptySet DEF GroupCount
  <2> QED BY <1>8, <2>2 DEF Done, GroupDone
<1>9. CASE UNCHANGED vars
  BY <1>9 DEF vars, clientVars
<1> QED
  BY <1>1, <1>2, <1>3, <1>4, <1>5, <1>6, <1>7, <1>8, <1>9
     DEF Next, ClientNext, RunnerNext, SubmitStep, WaitStep

(* Wait blocks until the tasks are done and never panics (task.go:252), if *)
(* its callers keep it apart from Submit.                                  *)
THEOREM NoWaitPanicCorrect ==
  ASSUME WaitAlone PROVE SafetySpec => []NoWaitPanic
<1>1. Init => WaitAlways
  BY DEF Init, WaitAlways, Alive, WaitSteps
<1>2. Inv /\ GroupCount /\ WaitAlways /\ [Next]_vars => WaitAlways'
  BY WaitAlwaysStep
<1>3. WaitAlways => NoWaitPanic
  BY DEF WaitAlways, NoWaitPanic
<1> QED
  BY <1>1, <1>2, <1>3, InvAlways, GroupCountCorrect, PTL DEF SafetySpec

-----------------------------------------------------------------------------
(* The safety part of the refinement: what clients can observe of a        *)
(* TaskManager is a behaviour of TaskLifecycle.                            *)
THEOREM RefinesLifecycle == SafetySpec => Lifecycle!SafetySpec
<1> USE DEF Lifecycle!Terminal, Terminal
<1>1. Init => Lifecycle!Init
  BY DEF Init, Lifecycle!Init, NewTask
<1>2. Inv /\ [Next]_vars => [Lifecycle!Next]_Lifecycle!vars
  <2> SUFFICES ASSUME Inv, [Next]_vars PROVE [Lifecycle!Next]_Lifecycle!vars
    OBVIOUS
  <2> DEFINE st == [id \in Ids |-> tasks[id].status]
  <2>1. ASSUME NEW c \in Clients, Register(c)
        PROVE  \E id \in Ids : Lifecycle!Submit(id)
    <3>1. cur[c] \in Ids /\ tasks[cur[c]].status = "absent"
      BY <2>1, MaxTasksAssumption
         DEF Register, ClientStep, Inv, TypeOK, Coherent, SubmitCoherent,
             SubmitSteps, Ids
    <3> PICK id \in Ids : id = cur[c]
      BY <3>1
    <3>2. st' = [st EXCEPT ![id] = "pending"]
      BY <2>1, <3>1 DEF Register, Inv, TypeOK, NewTask
    <3>3. Lifecycle!Submit(id)
      BY <2>1, <3>1, <3>2 DEF Register, Lifecycle!Submit, Lifecycle!Move
    <3> QED BY <3>3
  <2>2. ASSUME NEW c \in Clients, NEW id \in Ids, Cancel(c, id)
        PROVE  Lifecycle!Request(id)
    BY <2>2 DEF Cancel, Cancellable, Registered, IsTerminal, Inv, TypeOK, Task,
                Statuses, Lifecycle!Request
  <2>3. ASSUME NEW id \in Ids, Start(id) PROVE Lifecycle!Start(id)
    <3>1. tasks[id].status = "pending"
      BY <2>3 DEF Start, RunnerStep, Inv, Coherent, TaskCoherent, NewTask
    <3>2. st' = [st EXCEPT ![id] = "running"]
      BY <2>3, <3>1 DEF Start, UpdateTask, Inv, TypeOK
    <3> QED
      BY <2>3, <3>1, <3>2 DEF Start, Lifecycle!Start, Lifecycle!Move
  <2>4. ASSUME NEW id \in Ids, Update(id)
        PROVE  \E s \in Terminal : Lifecycle!Finish(id, s)
    <3>1. /\ tasks[id].status = "running"
          /\ verdict[id] \in Terminal
          /\ verdict[id] = "cancelled" => id \in cancelled
      BY <2>4 DEF Update, RunnerStep, Inv, Coherent, TaskCoherent,
                  VerdictCoherent, NewTask, Decided, Returned
    <3>2. st' = [st EXCEPT ![id] = verdict[id]]
      BY <2>4, <3>1 DEF Update, UpdateTask, Inv, TypeOK
    <3> QED
      BY <2>4, <3>1, <3>2 DEF Update, Lifecycle!Finish, Lifecycle!Move
  <2>5. CASE UNCHANGED <<tasks, cancelled>>
    BY <2>5 DEF Lifecycle!vars
  <2>6. \/ \E c \in Clients : Register(c) \/ \E id \in Ids : Cancel(c, id)
        \/ \E id \in Ids : Start(id) \/ Update(id)
        \/ UNCHANGED <<tasks, cancelled>>
    BY DEF Next, ClientNext, RunnerNext, SubmitStep, WaitStep, NextID,
           AddToGroup, Spawn, WaitCall, WaitLoad, WaitWake, FnReturn, Decide,
           CleanUp, Done, vars
  <2> USE DEF Lifecycle!Next, Lifecycle!Progress
  <2>7. ASSUME NEW c \in Clients, Register(c) PROVE Lifecycle!Next
    BY <2>1, <2>7
  <2>8. ASSUME NEW c \in Clients, NEW id \in Ids, Cancel(c, id)
        PROVE  Lifecycle!Next
    BY <2>2, <2>8
  <2>9. ASSUME NEW id \in Ids, Start(id) \/ Update(id) PROVE Lifecycle!Next
    BY <2>3, <2>4, <2>9
  <2> QED BY <2>5, <2>6, <2>7, <2>8, <2>9
<1> QED
  BY <1>1, <1>2, InvAlways, PTL DEF SafetySpec, Lifecycle!SafetySpec

=============================================================================
