---------------------------- MODULE TaskManager ----------------------------
(***************************************************************************)
(* internal/runtime/task.go: the TaskManager, its clients (HTTP handlers,  *)
(* the CLI) and the goroutine it starts for every task.                    *)
(*                                                                         *)
(* One action is one atomic step of the code: an atomic add, a critical    *)
(* section of tm.mu, one call on the WaitGroup, the return of a task       *)
(* function, the reading of ctx.Err().  Everything may happen in between.  *)
(*                                                                         *)
(* Left out: task descriptions, timestamps and the texts of results and    *)
(* errors; of these only "is it empty" is kept.                            *)
(***************************************************************************)
EXTENDS Integers, FiniteSets

CONSTANTS
  Clients,    \* goroutines that call Submit, Cancel and Wait
  MaxTasks,   \* how many tasks are ever submitted: bounds counter
  WaitAlone   \* TRUE: clients keep Wait and Submit apart, as every caller
              \* of Wait in the tests does; FALSE: they may overlap

ASSUME MaxTasksAssumption == MaxTasks \in Nat \ {0}
ASSUME WaitAloneAssumption == WaitAlone \in BOOLEAN

VARIABLES
  (* The TaskManager. *)
  tasks,      \* tm.tasks: identifier -> Task
  cancels,    \* domain of tm.cancels: who still has a cancel function
  counter,    \* tm.counter
  wg,         \* counter of tm.wg
  (* Contexts. *)
  cancelled,  \* the tasks whose context is cancelled
  (* Client goroutines. *)
  pc,         \* where each client is
  cur,        \* the identifier its Submit is working on
  waitFor,    \* history: tasks whose Submit had returned when Wait was called
  (* Task goroutines. *)
  runner,     \* where each task goroutine is
  kind,       \* which of run and runWithResult it executes
  outcome,    \* what its task function returned
  sawCancel,  \* history: context was already cancelled when fn returned
  verdict     \* the final status it has decided on

clientVars == <<pc, cur, waitFor>>
runnerVars == <<runner, kind, outcome, sawCancel, verdict>>
vars == <<tasks, cancels, counter, wg, cancelled, clientVars, runnerVars>>

-----------------------------------------------------------------------------
Ids == 1 .. MaxTasks
Kinds == {"plain", "rich"}
Outcomes == {"ok", "err"}
Terminal == {"completed", "failed", "cancelled"}
Statuses == {"pending", "running"} \cup Terminal

(* A Task; result and error tell whether the text is not empty.  A task    *)
(* that is not in the map has the status "absent".                         *)
Task == [status : Statuses \cup {"absent"}, result : BOOLEAN,
         error : BOOLEAN, runResult : BOOLEAN]

NewTask(s) ==
  [status |-> s, result |-> FALSE, error |-> FALSE, runResult |-> FALSE]

IsTerminal(s) == s \in Terminal

Registered == {id \in Ids : tasks[id].status # "absent"}

SubmitSteps == {"register", "add", "spawn"}
WaitSteps == {"wait", "parked", "woken"}
RunnerSteps ==
  {"executing", "returned", "decided", "updated", "cleaned"}

TypeOK ==
  /\ tasks \in [Ids -> Task]
  /\ cancels \subseteq Ids
  /\ counter \in 0 .. MaxTasks
  /\ wg \in Int
  /\ cancelled \subseteq Ids
  /\ pc \in [Clients -> {"idle", "panicked"} \cup SubmitSteps \cup WaitSteps]
  /\ cur \in [Clients -> 0 .. MaxTasks]
  /\ waitFor \in [Clients -> SUBSET Ids]
  /\ runner \in [Ids -> {"none", "spawned", "done"} \cup RunnerSteps]
  /\ kind \in [Ids -> Kinds \cup {"none"}]
  /\ outcome \in [Ids -> Outcomes \cup {"none"}]
  /\ sawCancel \subseteq Ids
  /\ verdict \in [Ids -> Terminal \cup {"none"}]

Init ==
  /\ tasks = [id \in Ids |-> NewTask("absent")]
  /\ cancels = {}
  /\ counter = 0
  /\ wg = 0
  /\ cancelled = {}
  /\ pc = [c \in Clients |-> "idle"]
  /\ cur = [c \in Clients |-> 0]
  /\ waitFor = [c \in Clients |-> {}]
  /\ runner = [id \in Ids |-> "none"]
  /\ kind = [id \in Ids |-> "none"]
  /\ outcome = [id \in Ids |-> "none"]
  /\ sawCancel = {}
  /\ verdict = [id \in Ids |-> "none"]

-----------------------------------------------------------------------------
(* A panic takes the whole process down. *)
Alive == \A c \in Clients : pc[c] # "panicked"

(* Submit: SubmitWithOwner (k = "plain") and SubmitWithResultOwner         *)
(* (k = "rich"), in four steps.                                            *)

ClientStep(c, from, to) ==
  /\ Alive
  /\ pc[c] = from
  /\ pc' = [pc EXCEPT ![c] = to]

(* MUTANTS: the counter before the add; or the size of the map plus one. *)
OldCounter == counter
SizeOfMap == Cardinality(Registered) + 1

(* nextID: one atomic add. *)
NewId == counter + 1

NextID(c, k) ==
  /\ WaitAlone => \A d \in Clients : pc[d] \notin WaitSteps
  /\ counter < MaxTasks
  /\ ClientStep(c, "idle", "register")
  /\ counter' = counter + 1
  /\ cur' = [cur EXCEPT ![c] = NewId]
  /\ kind' = [kind EXCEPT ![NewId] = k]
  /\ UNCHANGED <<tasks, cancels, wg, cancelled, waitFor, runner, outcome,
                 sawCancel, verdict>>

(* The critical section that fills both maps. *)
Register(c) ==
  /\ ClientStep(c, "register", "add")
  /\ tasks' = [tasks EXCEPT ![cur[c]] = NewTask("pending")]
  /\ cancels' = cancels \cup {cur[c]}
  /\ UNCHANGED <<counter, wg, cancelled, cur, waitFor, runnerVars>>

(* MUTANT: wg.Add is forgotten. *)
SkipAdd(c) ==
  /\ ClientStep(c, "add", "spawn")
  /\ UNCHANGED <<tasks, cancels, counter, wg, cancelled, cur, waitFor,
                 runnerVars>>

AddToGroup(c) ==
  /\ ClientStep(c, "add", "spawn")
  /\ wg' = wg + 1
  /\ UNCHANGED <<tasks, cancels, counter, cancelled, cur, waitFor, runnerVars>>

(* The go statement; Submit returns the identifier. *)
Spawn(c) ==
  /\ ClientStep(c, "spawn", "idle")
  /\ runner' = [runner EXCEPT ![cur[c]] = "spawned"]
  /\ cur' = [cur EXCEPT ![c] = 0]
  /\ UNCHANGED <<tasks, cancels, counter, wg, cancelled, waitFor, kind,
                 outcome, sawCancel, verdict>>

(* The tasks whose Submit has returned. *)
Submitted == {id \in Ids : runner[id] # "none"}

-----------------------------------------------------------------------------
(* Cancel: one critical section, for any identifier a client may name.     *)

(* The error replies (not found, already terminal, no cancel function)     *)
(* change nothing.                                                         *)
Cancellable(id) ==
  /\ id \in Registered
  /\ ~IsTerminal(tasks[id].status)
  /\ id \in cancels

(* MUTANT: Cancel writes the status itself. *)
CancelAndWrite(c, id) ==
  /\ Alive
  /\ pc[c] = "idle"
  /\ Cancellable(id)
  /\ cancelled' = cancelled \cup {id}
  /\ tasks' = [tasks EXCEPT ![id].status = "cancelled"]
  /\ UNCHANGED <<cancels, counter, wg, clientVars, runnerVars>>

Cancel(c, id) ==
  /\ Alive
  /\ pc[c] = "idle"
  /\ Cancellable(id)
  /\ cancelled' = cancelled \cup {id}
  /\ UNCHANGED <<tasks, cancels, counter, wg, clientVars, runnerVars>>

-----------------------------------------------------------------------------
(* Wait is sync.WaitGroup.Wait: read the counter; return if it is zero,    *)
(* else park until a Done makes it zero; on waking up, panic if the group  *)
(* is in use again.                                                        *)

WaitCall(c) ==
  /\ WaitAlone => \A d \in Clients : pc[d] \notin SubmitSteps
  /\ ClientStep(c, "idle", "wait")
  /\ waitFor' = [waitFor EXCEPT ![c] = Submitted]
  /\ UNCHANGED <<tasks, cancels, counter, wg, cancelled, cur, runnerVars>>

WaitLoad(c) ==
  /\ ClientStep(c, "wait", IF wg = 0 THEN "idle" ELSE "parked")
  /\ UNCHANGED <<tasks, cancels, counter, wg, cancelled, cur, waitFor,
                 runnerVars>>

WaitWake(c) ==
  /\ ClientStep(c, "woken",
       IF wg = 0 /\ \A d \in Clients : pc[d] # "parked"
         THEN "idle" ELSE "panicked")
  /\ UNCHANGED <<tasks, cancels, counter, wg, cancelled, cur, waitFor,
                 runnerVars>>

-----------------------------------------------------------------------------
(* The task goroutine: run (kind "plain") and runWithResult ("rich").      *)

RunnerStep(id, from, to) ==
  /\ Alive
  /\ runner[id] = from
  /\ runner' = [runner EXCEPT ![id] = to]

(* updateTask and updateTaskWithResult: a critical section that overwrites *)
(* status, result, error and (the latter) the run result of a known task.  *)
UpdateTask(id, s, result, error, runResult) ==
  tasks' = IF tasks[id].status = "absent" THEN tasks
           ELSE [tasks EXCEPT ![id] =
                   [status |-> s, result |-> result,
                    error |-> error, runResult |-> runResult]]

Start(id) ==
  /\ RunnerStep(id, "spawned", "executing")
  /\ UpdateTask(id, "running", FALSE, FALSE, FALSE)
  /\ UNCHANGED <<cancels, counter, wg, cancelled, clientVars, kind, outcome,
                 sawCancel, verdict>>

(* fn(ctx) returns, with or without an error; it is free to ignore ctx. *)
FnReturn(id, o) ==
  /\ RunnerStep(id, "executing", "returned")
  /\ outcome' = [outcome EXCEPT ![id] = o]
  /\ sawCancel' = IF id \in cancelled THEN sawCancel \cup {id} ELSE sawCancel
  /\ UNCHANGED <<tasks, cancels, counter, wg, cancelled, clientVars, kind,
                 verdict>>

(* MUTANTS: the error is looked at before ctx.Err(); every error counts as *)
(* a cancellation; success sets no status.                                 *)
ErrorFirst(id) ==
  IF outcome[id] = "err" THEN "failed"
  ELSE IF id \in cancelled THEN "cancelled" ELSE "completed"

AnyErrorCancels(id) ==
  IF outcome[id] = "err" THEN "cancelled" ELSE "completed"

NoDefault(id) ==
  IF id \in cancelled THEN "cancelled"
  ELSE IF outcome[id] = "err" THEN "failed" ELSE "none"

(* run looks at ctx.Err() only after an error, runWithResult always. *)
FinalStatus(id) ==
  IF id \in cancelled /\ (kind[id] = "plain" => outcome[id] = "err")
    THEN "cancelled"
    ELSE IF outcome[id] = "err" THEN "failed" ELSE "completed"

(* MUTANT: the cancel function goes before the status is written. *)
DecideAndCleanUp(id) ==
  /\ RunnerStep(id, "returned", "decided")
  /\ verdict' = [verdict EXCEPT ![id] = FinalStatus(id)]
  /\ cancels' = cancels \ {id}
  /\ UNCHANGED <<tasks, counter, wg, cancelled, clientVars, kind, outcome,
                 sawCancel>>

Decide(id) ==
  /\ RunnerStep(id, "returned", "decided")
  /\ verdict' = [verdict EXCEPT ![id] = FinalStatus(id)]
  /\ UNCHANGED <<tasks, cancels, counter, wg, cancelled, clientVars, kind,
                 outcome, sawCancel>>

Update(id) ==
  /\ RunnerStep(id, "decided", "updated")
  /\ UpdateTask(id, verdict[id], verdict[id] = "completed",
                outcome[id] = "err", kind[id] = "rich")
  /\ UNCHANGED <<cancels, counter, wg, cancelled, clientVars, kind, outcome,
                 sawCancel, verdict>>

(* wg.Done; the one that reaches zero releases every waiter. *)
GroupDone ==
  /\ wg' = wg - 1
  /\ pc' = [c \in Clients |->
              IF wg = 1 /\ pc[c] = "parked" THEN "woken" ELSE pc[c]]

(* MUTANTS: the entry stays in cancels; or wg.Done is called once too      *)
(* often.                                                                  *)
KeepCancelFn(id) ==
  /\ RunnerStep(id, "updated", "cleaned")
  /\ UNCHANGED <<tasks, cancels, counter, wg, cancelled, clientVars, kind,
                 outcome, sawCancel, verdict>>

CleanUpAndDone(id) ==
  /\ RunnerStep(id, "updated", "cleaned")
  /\ cancels' = cancels \ {id}
  /\ GroupDone
  /\ UNCHANGED <<tasks, counter, cancelled, cur, waitFor, kind, outcome,
                 sawCancel, verdict>>

CleanUp(id) ==
  /\ RunnerStep(id, "updated", "cleaned")
  /\ cancels' = cancels \ {id}
  /\ UNCHANGED <<tasks, counter, wg, cancelled, clientVars, kind, outcome,
                 sawCancel, verdict>>

(* MUTANT: a cancelled task returns without wg.Done. *)
DoneUnlessCancelled(id) ==
  /\ id \notin cancelled
  /\ RunnerStep(id, "cleaned", "done")
  /\ GroupDone
  /\ UNCHANGED <<tasks, cancels, counter, cancelled, cur, waitFor, kind,
                 outcome, sawCancel, verdict>>

(* The deferred call of wg.Done. *)
Done(id) ==
  /\ RunnerStep(id, "cleaned", "done")
  /\ GroupDone
  /\ UNCHANGED <<tasks, cancels, counter, cancelled, cur, waitFor, kind,
                 outcome, sawCancel, verdict>>

-----------------------------------------------------------------------------
SubmitStep(c) == Register(c) \/ AddToGroup(c) \/ Spawn(c)

WaitStep(c) == WaitLoad(c) \/ WaitWake(c)

ClientNext(c) ==
  \/ \E k \in Kinds : NextID(c, k)
  \/ SubmitStep(c)
  \/ \E id \in Ids : Cancel(c, id)
  \/ WaitCall(c)
  \/ WaitStep(c)

RunnerNext(id) ==
  \/ Start(id)
  \/ \E o \in Outcomes : FnReturn(id, o)
  \/ Decide(id)
  \/ Update(id)
  \/ CleanUp(id)
  \/ Done(id)

Next ==
  \/ \E c \in Clients : ClientNext(c)
  \/ \E id \in Ids : RunnerNext(id)

SafetySpec == Init /\ [][Next]_vars

(* The Go scheduler runs every runnable goroutine, and a task function     *)
(* returns: AgentLoop.Run has an iteration budget, and model calls and     *)
(* shell commands have timeouts.  Nobody has to call anything.             *)
Fairness ==
  /\ \A c \in Clients : WF_vars(SubmitStep(c))
  /\ \A c \in Clients : WF_vars(WaitStep(c))
  /\ \A id \in Ids : WF_vars(RunnerNext(id))

Spec == SafetySpec /\ Fairness

-----------------------------------------------------------------------------
(* PROPERTIES                                                              *)

Returned == {"returned", "decided", "updated", "cleaned", "done"}
Decided == Returned \ {"returned"}
Updated == Decided \ {"decided"}

(* Where its goroutine stands determines what the maps hold for a task.    *)
TaskCoherent(id) ==
  /\ runner[id] = "none" =>
       tasks[id] \in {NewTask("absent"), NewTask("pending")}
  /\ runner[id] = "spawned" => tasks[id] = NewTask("pending")
  /\ runner[id] \in {"executing", "returned", "decided"} =>
       tasks[id] = NewTask("running")
  /\ runner[id] \in Updated =>
       /\ tasks[id].status = verdict[id]
       /\ tasks[id].result <=> verdict[id] = "completed"
       /\ tasks[id].error <=> outcome[id] = "err"
  /\ id \in cancels <=> /\ tasks[id].status # "absent"
                        /\ runner[id] \notin {"cleaned", "done"}
  /\ id > counter => tasks[id].status = "absent" /\ runner[id] = "none"

(* The verdict of a task goroutine agrees with what its function returned  *)
(* and with the cancellations the function could see.                      *)
VerdictCoherent(id) ==
  /\ id \in sawCancel => id \in cancelled /\ runner[id] \in Returned
  /\ runner[id] \in Returned => outcome[id] \in Outcomes
  /\ runner[id] \in Decided =>
       /\ verdict[id] \in Terminal
       /\ verdict[id] = "cancelled" => id \in cancelled
       /\ verdict[id] = "completed" => outcome[id] = "ok"
       /\ verdict[id] = "failed" => outcome[id] = "err"
       /\ id \in sawCancel => \/ verdict[id] = "cancelled"
                              \/ kind[id] = "plain" /\ outcome[id] = "ok"

(* A Submit in progress owns an identifier that no other Submit and no     *)
(* task goroutine works on.                                                *)
SubmitCoherent(c) ==
  pc[c] \in SubmitSteps =>
    /\ cur[c] \in 1 .. counter
    /\ runner[cur[c]] = "none"
    /\ tasks[cur[c]].status =
         IF pc[c] = "register" THEN "absent" ELSE "pending"
    /\ \A d \in Clients \ {c} : pc[d] \in SubmitSteps => cur[d] # cur[c]

(* The inductive invariant behind the ones below: the maps, the contexts,  *)
(* the clients and the task goroutines agree about every task.             *)
Coherent ==
  /\ \A id \in Ids : TaskCoherent(id) /\ VerdictCoherent(id)
  /\ \A c \in Clients : SubmitCoherent(c)

(* nextID never gives two concurrent calls of Submit the same identifier,  *)
(* nor one that is in the map: no Submit overwrites the task of another.   *)
UniqueIds ==
  \A c \in Clients : pc[c] \in SubmitSteps =>
    /\ \A d \in Clients \ {c} : pc[d] \in SubmitSteps => cur[d] # cur[c]
    /\ pc[c] = "register" => cur[c] \notin Registered
    /\ cur[c] \notin Submitted

(* Cancel (task.go:213) never answers "has no cancel function": a task     *)
(* keeps its entry in cancels for as long as its status is not terminal.   *)
CancelFnPresent ==
  \A id \in Registered : IsTerminal(tasks[id].status) \/ id \in cancels

(* A task function that returned after its context had been cancelled      *)
(* leaves the task cancelled, whatever happens before the status is        *)
(* written; the one exception is a plain function that succeeded anyway    *)
(* (run, task.go:276).                                                     *)
CancelHonoured ==
  \A id \in sawCancel :
    IsTerminal(tasks[id].status) =>
      \/ tasks[id].status = "cancelled"
      \/ kind[id] = "plain" /\ outcome[id] = "ok"

(* A task ends cancelled only if some Cancel was accepted, and a result    *)
(* text is only ever shown for a task whose function succeeded.            *)
NoSpuriousStatus ==
  \A id \in Registered :
    /\ tasks[id].status = "cancelled" => id \in cancelled
    /\ tasks[id].result => tasks[id].status = "completed" /\ outcome[id] = "ok"
    /\ tasks[id].status = "failed" => tasks[id].error

(* The WaitGroup counts exactly the tasks added and not yet done, so that  *)
(* Done never drives it below zero (which would panic).                    *)
Active ==
  {id \in Ids : \/ runner[id] \in {"spawned"} \cup RunnerSteps
                \/ \E c \in Clients : pc[c] = "spawn" /\ cur[c] = id}

GroupCount == wg = Cardinality(Active)

(* A waiter that was released, or finds the group empty, waits for tasks   *)
(* whose goroutines are done.                                              *)
WaitCoherent ==
  \A c \in Clients : pc[c] \in WaitSteps =>
    \A id \in waitFor[c] :
      /\ id \in Submitted
      /\ pc[c] = "woken" => runner[id] = "done"

(* When Wait returns, every task whose Submit had returned before the call *)
(* has its final status and no cancel function left.                       *)
WaitSound ==
  [][\A c \in Clients : pc[c] \in WaitSteps /\ pc'[c] = "idle" =>
       \A id \in waitFor[c] :
         IsTerminal(tasks'[id].status) /\ id \notin cancels']_vars

(* A task in a terminal status is never touched again: what a client reads *)
(* with Get or List after completion is final.                             *)
TerminalAbsorbing ==
  [][\A id \in Ids : IsTerminal(tasks[id].status) =>
       tasks'[id] = tasks[id]]_vars

(* "Wait blocks until all submitted tasks have completed" (task.go:252):   *)
(* it ends no other way.  sync.WaitGroup panics in Wait when the group is  *)
(* used again while a waiter is still on its way out.                      *)
NoWaitPanic == Alive

(* Every registered task reaches a terminal status and gives up its cancel *)
(* function.                                                               *)
EveryTaskEnds ==
  \A id \in Ids : id \in Registered ~>
                   IsTerminal(tasks[id].status) /\ id \notin cancels

(* A Wait that is called returns, once clients submit no more.             *)
WaitReturns ==
  \A c \in Clients : pc[c] \in WaitSteps ~> pc[c] = "idle"

(* Seen through the statuses that clients can read and the cancellations   *)
(* that were accepted, the TaskManager is a TaskLifecycle.                 *)
Lifecycle == INSTANCE TaskLifecycle WITH
  state <- [id \in Ids |-> tasks[id].status], requested <- cancelled

ImplementsLifecycle == Lifecycle!Spec

(* web.go:237 answers a cancel request with {"status":"cancelled"}, and    *)
(* task_test.go:105 says "Cancel a running task -> status should be        *)
(* Cancelled": a task whose Cancel was accepted does not end otherwise.    *)
CancelAcceptedMeansCancelled ==
  \A id \in cancelled : IsTerminal(tasks[id].status) =>
    tasks[id].status = "cancelled"
=============================================================================
