----------------------------- MODULE SharedLoop -----------------------------
(***************************************************************************)
(* internal/web/web.go:187 runs every task of the server on one AgentLoop: *)
(* each task's goroutine calls RunWithResult (internal/runtime/loop.go),   *)
(* and nothing guards the fields of the loop and of its pipeline.          *)
(*                                                                         *)
(* A statement that reads and writes a shared field is two steps.  The     *)
(* slices `messages` and `auditLog` are abstracted to the set of the tasks *)
(* whose messages and entries they hold.  No handler is configured, so an  *)
(* action that needs an approval ends the run.  `state` and                *)
(* `stateTransitions` decide nothing and are left out.                     *)
(***************************************************************************)
EXTENDS Naturals, FiniteSets

CONSTANTS
  Tasks,         \* the tasks submitted to the server
  Calls,         \* the tool calls a model may make
  Verdict,       \* what Pipeline.Evaluate decides on each of them
  MaxIterations, \* LoopConfig.MaxIterations
  MaxCalls       \* bounds the tool calls of one response

Decisions == {"allow", "deny", "escalate", "require_approval"}

ASSUME VerdictAssumption == Verdict \in [Calls -> Decisions]
ASSUME BoundsAssumption == MaxIterations \in Nat /\ MaxCalls \in Nat

VARIABLES
  messages,   \* AgentLoop.messages: the tasks whose messages it holds
  iterations, \* AgentLoop.iterations
  auditLog    \* Pipeline.auditLog: the tasks whose entries it holds

(* Local to the goroutine of a task. *)
VARIABLES
  pc,         \* where it is
  cancelled,  \* its context is done
  pending,    \* tool calls of its last response still to be executed
  call,       \* the call it executes
  snapshot,   \* the slice it read and is going to append to
  count,      \* the counter it read and is going to increment
  result      \* its RunResult

(* History, for the properties only. *)
VARIABLES
  basis,      \* the tasks whose messages the model was shown for a task
  rounds      \* the rounds of tool calls that were completed and counted

shared == <<messages, iterations, auditLog, rounds>>
local == <<pending, call, snapshot, count, result, basis>>
vars == <<shared, pc, cancelled, local>>

Pcs == {"ready", "head", "generate", "stop", "bad", "calls", "call",
        "record", "tool", "reply", "answer", "count", "increment", "report", "done"}
NoCall == "none"
NoResult == [outcome |-> "none", audit |-> {}]
Outcomes == {"text", "failed", "exhausted", "cancelled", "hitl"}

Goto(t, place) == pc' = [pc EXCEPT ![t] = place]
Set(f, t, v) == [f EXCEPT ![t] = v]

Init ==
  /\ messages = {}
  /\ iterations = 0
  /\ auditLog = {}
  /\ pc = [t \in Tasks |-> "ready"]
  /\ cancelled = [t \in Tasks |-> FALSE]
  /\ pending = [t \in Tasks |-> 0]
  /\ call = [t \in Tasks |-> NoCall]
  /\ snapshot = [t \in Tasks |-> {}]
  /\ count = [t \in Tasks |-> 0]
  /\ result = [t \in Tasks |-> NoResult]
  /\ basis = [t \in Tasks |-> {}]
  /\ rounds = 0

-----------------------------------------------------------------------------
(* What a slice may hold after an unsynchronised append of `mine` to what  *)
(* was read: if another goroutine has written meanwhile, each of the two   *)
(* may have overwritten elements of the other.                             *)
Appended(read, now, mine) ==
  IF now = read THEN {read \cup mine} ELSE SUBSET (read \cup now \cup mine)

(* MUTANT: Run renews the budget of the loop. *)
BeginRenewing(t) ==
  /\ pc[t] = "ready"
  /\ messages' = {t}
  /\ iterations' = 0
  /\ Goto(t, "head")
  /\ UNCHANGED <<auditLog, rounds, cancelled, local>>

(* Run starts a new conversation, whoever else is talking. *)
Begin(t) ==
  /\ pc[t] = "ready"
  /\ messages' = {t}
  /\ Goto(t, "head")
  /\ UNCHANGED <<iterations, auditLog, rounds, cancelled, local>>

Cancel(t) ==
  /\ pc[t] # "done"
  /\ ~cancelled[t]
  /\ cancelled' = Set(cancelled, t, TRUE)
  /\ UNCHANGED <<shared, pc, local>>

(* The end of Run; the outcome is kept until RunWithResult reports. *)
Return(t, outcome) ==
  /\ result' = [result EXCEPT ![t].outcome = outcome]
  /\ Goto(t, "report")

Think(t) ==
  /\ pc[t] = "head"
  /\ iterations < MaxIterations
  /\ ~cancelled[t]
  /\ basis' = Set(basis, t, basis[t] \cup messages)
  /\ Goto(t, "generate")
  /\ UNCHANGED <<shared, cancelled, pending, call, snapshot, count, result>>

GiveUp(t) ==
  /\ pc[t] = "head"
  /\ \/ iterations >= MaxIterations /\ Return(t, "exhausted")
     \/ iterations < MaxIterations /\ cancelled[t] /\ Return(t, "cancelled")
  /\ UNCHANGED <<shared, cancelled, pending, call, snapshot, count, basis>>

(* Generate fails, or responds: with a text, with another finish reason,   *)
(* or with n tool calls.                                                   *)
GenerateFails(t) ==
  /\ pc[t] = "generate"
  /\ Return(t, "failed")
  /\ UNCHANGED <<shared, cancelled, pending, call, snapshot, count, basis>>

Respond(t, finish, n) ==
  /\ pc[t] = "generate"
  /\ finish # "calls" => n = 0
  /\ pending' = Set(pending, t, n)
  /\ snapshot' = Set(snapshot, t, messages)
  /\ Goto(t, finish)
  /\ UNCHANGED <<shared, cancelled, call, count, result, basis>>

(* The second half of an append to messages. *)
AppendMessage(t) ==
  /\ messages' \in Appended(snapshot[t], messages, {t})
  /\ snapshot' = Set(snapshot, t, {})

Stop(t) ==
  /\ pc[t] \in {"stop", "bad"}
  /\ AppendMessage(t)
  /\ Return(t, IF pc[t] = "stop" THEN "text" ELSE "failed")
  /\ UNCHANGED <<iterations, auditLog, rounds, cancelled, pending, call, count,
                 basis>>

Propose(t) ==
  /\ pc[t] = "calls"
  /\ AppendMessage(t)
  /\ Goto(t, "call")
  /\ UNCHANGED <<iterations, auditLog, rounds, cancelled, pending, call, count,
                 result, basis>>

-----------------------------------------------------------------------------
(* executeToolCall.                                                        *)

(* Evaluate decides, and begins to append its audit entry. *)
Evaluate(t, c) ==
  /\ pc[t] = "call"
  /\ pending[t] > 0
  /\ pending' = Set(pending, t, pending[t] - 1)
  /\ call' = Set(call, t, c)
  /\ snapshot' = Set(snapshot, t, auditLog)
  /\ Goto(t, "record")
  /\ UNCHANGED <<shared, cancelled, count, result, basis>>

(* MUTANT: the calls of the response are not counted. *)
ParseFailsAgain(t) ==
  /\ pc[t] = "call"
  /\ pending' = Set(pending, t, pending[t] - 1)
  /\ Goto(t, "reply")
  /\ UNCHANGED <<shared, cancelled, call, snapshot, count, result, basis>>

(* MUTANT: a call that cannot be parsed uses up a round of its own. *)
ParseFailsCounted(t) ==
  /\ pc[t] = "call"
  /\ pending[t] > 0
  /\ pending' = Set(pending, t, pending[t] - 1)
  /\ iterations' = iterations + 1
  /\ Goto(t, "reply")
  /\ UNCHANGED <<messages, auditLog, rounds, cancelled, call, snapshot, count,
                 result, basis>>

(* The arguments cannot be parsed: the error is the reply. *)
ParseFails(t) ==
  /\ pc[t] = "call"
  /\ pending[t] > 0
  /\ pending' = Set(pending, t, pending[t] - 1)
  /\ Goto(t, "reply")
  /\ UNCHANGED <<shared, cancelled, call, snapshot, count, result, basis>>

(* The decision is the value Evaluate returned. *)
Decide(t) ==
  \/ Verdict[call[t]] = "allow" /\ Goto(t, "tool") /\ UNCHANGED result
  \/ Verdict[call[t]] \in {"deny", "escalate"}
       /\ Goto(t, "reply") /\ UNCHANGED result
  \/ Verdict[call[t]] = "require_approval" /\ Return(t, "hitl")

RecordAudit(t) ==
  /\ pc[t] = "record"
  /\ auditLog' \in Appended(snapshot[t], auditLog, {t})
  /\ snapshot' = Set(snapshot, t, {})
  /\ Decide(t)
  /\ UNCHANGED <<messages, iterations, rounds, cancelled, pending, call, count,
                 basis>>

(* The tool refuses, fails or is observed, in its own time: it does not    *)
(* see the task's context.                                                 *)
ToolReturns(t) ==
  /\ pc[t] = "tool"
  /\ Goto(t, "reply")
  /\ UNCHANGED <<shared, cancelled, local>>

Reply(t) ==
  /\ pc[t] = "reply"
  /\ call' = Set(call, t, NoCall)
  /\ snapshot' = Set(snapshot, t, messages)
  /\ Goto(t, "answer")
  /\ UNCHANGED <<shared, cancelled, pending, count, result, basis>>

Answer(t) ==
  /\ pc[t] = "answer"
  /\ AppendMessage(t)
  /\ Goto(t, "call")
  /\ UNCHANGED <<iterations, auditLog, rounds, cancelled, pending, call, count,
                 result, basis>>

-----------------------------------------------------------------------------
(* iterations++ *)

ReadIterations(t) ==
  /\ pc[t] = "call"
  /\ pending[t] = 0
  /\ count' = Set(count, t, iterations)
  /\ Goto(t, "increment")
  /\ UNCHANGED <<shared, cancelled, pending, call, snapshot, result, basis>>

(* MUTANT: a round with a failed call is taken back. *)
WriteIterationsBack(t) ==
  /\ pc[t] = "increment"
  /\ iterations' = count[t]
  /\ count' = Set(count, t, 0)
  /\ Goto(t, "head")
  /\ UNCHANGED <<messages, auditLog, rounds, cancelled, pending, call,
                 snapshot, result, basis>>

WriteIterations(t) ==
  /\ pc[t] = "increment"
  /\ iterations' = count[t] + 1
  /\ rounds' = rounds + 1
  /\ count' = Set(count, t, 0)
  /\ Goto(t, "head")
  /\ UNCHANGED <<messages, auditLog, cancelled, pending, call, snapshot,
                 result, basis>>

(* RunWithResult reads what the loop and the pipeline hold by now. *)
Report(t) ==
  /\ pc[t] = "report"
  /\ result' = [result EXCEPT ![t].audit = auditLog]
  /\ Goto(t, "done")
  /\ UNCHANGED <<shared, cancelled, pending, call, snapshot, count, basis>>

Internal(t) ==
  \/ Begin(t) \/ Think(t) \/ GiveUp(t) \/ Stop(t) \/ Propose(t)
  \/ ParseFails(t) \/ RecordAudit(t) \/ Reply(t) \/ Answer(t)
  \/ \E c \in Calls : Evaluate(t, c)
  \/ ReadIterations(t) \/ WriteIterations(t) \/ Report(t)

Generated(t) ==
  \/ GenerateFails(t)
  \/ \E finish \in {"stop", "bad", "calls"}, n \in 0 .. MaxCalls :
       Respond(t, finish, n)

Next ==
  \E t \in Tasks : Internal(t) \/ Generated(t) \/ ToolReturns(t) \/ Cancel(t)

Spec == Init /\ [][Next]_vars

(* The Go scheduler runs every goroutine; the provider and the tools have  *)
(* timeouts.                                                               *)
Fairness ==
  \A t \in Tasks : WF_vars(Internal(t) \/ Generated(t) \/ ToolReturns(t))

FairSpec == Spec /\ Fairness

-----------------------------------------------------------------------------
(* PROPERTIES                                                              *)

TypeOK ==
  /\ messages \subseteq Tasks
  /\ iterations \in Nat
  /\ auditLog \subseteq Tasks
  /\ pc \in [Tasks -> Pcs]
  /\ cancelled \in [Tasks -> BOOLEAN]
  /\ pending \in [Tasks -> 0 .. MaxCalls]
  /\ call \in [Tasks -> Calls \cup {NoCall}]
  /\ snapshot \in [Tasks -> SUBSET Tasks]
  /\ count \in [Tasks -> Nat]
  /\ result \in [Tasks -> [outcome : Outcomes \cup {"none"},
                           audit : SUBSET Tasks]]
  /\ basis \in [Tasks -> SUBSET Tasks]
  /\ rounds \in Nat

(* A run gives up on "max iterations exceeded" (loop.go:181) only after    *)
(* that many rounds were really completed on the loop, whoever completed   *)
(* them: increments that overwrite each other (loop.go:168) may grant the  *)
(* tasks rounds beyond the limit, but never take one away.                 *)
ExhaustionIsEarned ==
  \A t \in Tasks :
    result[t].outcome = "exhausted" => rounds >= MaxIterations

(* The counter, and every value a goroutine is about to write to it, is at *)
(* least k.                                                                *)
AtLeast(k) ==
  /\ iterations >= k
  /\ \A t \in Tasks : pc[t] = "increment" => count[t] + 1 >= k

(* The increments overwrite each other, and the counter may fall back, but *)
(* never below a level that the counter and all increments under way have  *)
(* reached: the budget that all tasks share is used up in the end.         *)
BudgetFloor ==
  [][\A k \in 0 .. iterations : AtLeast(k) => AtLeast(k)']_vars

(* Every run ends, although the runs keep setting the counter back.        *)
RunsEnd ==
  \A t \in Tasks : pc[t] \notin {"ready", "done"} ~> pc[t] = "done"

(* "Tasks are stored with their owner and the list/status/cancel endpoints *)
(* only serve the caller's own tasks" (web.go:79): what a task reports was *)
(* obtained from its own conversation and shows its own decisions.         *)
ShownIsOwn ==
  \A t \in Tasks :
    pc[t] = "done" => basis[t] \subseteq {t} /\ result[t].audit \subseteq {t}
=============================================================================
